---- MODULE Spec2Model ----
(***************************************************************************)
(* A model of lyra (github.com/sourabh-kumar2/lyra): the dependency DAG    *)
(* with its level-synchronous Kahn scheduling, and the orchestrator that   *)
(* registers tasks (Do) and runs them level by level (Run).                *)
(*                                                                         *)
(* Two specifications:                                                     *)
(*   SpecDAG  GetExecutionLevels applied to bounded prerequisite maps,     *)
(*            under every iteration order of the Go maps involved;         *)
(*   Spec     the orchestrator: Do calls, Run, the workers of a level.     *)
(***************************************************************************)
EXTENDS Integers, Sequences, FiniteSets, TLC

\* ------------------------------------------------------------------ bounds
\* number of nodes of a prerequisite map
MaxNodes == 5
\* length of one node's prerequisite list
MaxDeps == 2
\* total number of listed prerequisites of a map
MaxEdges == 4
\* number of set calls made on one Result
MaxSets == 3
\* number of threads that write to one Result, and of threads that only read
MaxWriters == 2
MaxReaders == 2
\* number of parameters and of return values of a function under analysis
MaxParams == 2
MaxReturns == 3
\* number of input descriptors of a task
MaxSpecs == 3
\* number of names of a field path
MaxPath == 2

\* ------------------------------------------------------------- identifiers
\* node / task ids are strings in the program
IdPool == <<"a", "b", "c", "d", "e", "f", "g", "h">>
\* an id that is never a key of a map
Ghost == "ghost"
\* the zero value of a Go string (an unused cell of a slice's backing array)
Blank == ""

NodeName(i) == IF i = 0 THEN Ghost ELSE IdPool[i]
Nodes(n) == {IdPool[i] : i \in 1..n}

\* F applied to the value of v: v is evaluated once, as a Go statement
\* evaluates its operand once before the statements that follow use it
Then(v, F(_)) == CHOOSE r \in {F(x) : x \in {v}} : TRUE

RECURSIVE Perms(_)
\* all orders in which a Go `range` may visit the keys S of a map
Perms(S) ==
  IF S = {} THEN {<<>>}
  ELSE UNION {{<<x>> \o p : p \in Perms(S \ {x})} : x \in S}

\* ------------------------------------------------------------------ errors
\* an error value: its kind (what errors.Is matches), the layers of context
\* wrapped around it (outermost first) and, for a joined error, its parts
Err(kind) == [kind |-> kind, ctx |-> <<>>, errs |-> <<>>]
NoError == Err("nil")
ErrCyclicDependency == Err("CYCLIC_DEPENDENCY")
ErrMissingDependency == Err("MISSING_DEPENDENCY")
ErrMustBeFunction == Err("MUST_BE_FUNCTION")
ErrMustHaveAtLeastContext == Err("MUST_HAVE_AT_LEAST_CONTEXT")
ErrFirstParamMustBeContext == Err("FIRST_PARAM_MUST_BE_CONTEXT")
ErrMustReturnAtLeastError == Err("MUST_RETURN_AT_LEAST_ERROR")
ErrSingleReturnMustBeError == Err("SINGLE_RETURN_MUST_BE_ERROR")
ErrSecondReturnMustBeError == Err("SECOND_RETURN_MUST_BE_ERROR")
ErrTooManyReturnValues == Err("TOO_MANY_RETURN_VALUES")
ErrVariadicNotSupported == Err("VARIADIC_NOT_SUPPORTED")
ErrTaskIDCannotBeEmpty == Err("TASK_ID_EMPTY")
ErrTaskParamCountMismatch == Err("PARAM_COUNT_MISMATCH")
ErrDuplicateTask == Err("DUPLICATE_TASK")
ErrTaskNotFound == Err("TASK_NOT_FOUND")
ErrInvalidParamType == Err("INVALID_PARAM_TYPE")
\* errors a user callable returns
ErrTaskFailed == Err("TASK_FAILED")
ErrContextCanceled == Err("CONTEXT_CANCELED")

\* errors.Wrapf: the same error kind (errors.Is still matches) with one more
\* layer of context in front
Wrapf(err, context) == [err EXCEPT !.ctx = <<context>> \o @]

\* errors.Join of a non-empty list of errors (standard library)
Join(errs) == [kind |-> "JOIN", ctx |-> <<>>, errs |-> errs]

\* ============================================================ DependencyDAG
RECURSIVE scanDepsUnchecked(_, _, _, _)
\* getInDegree without the existence check of line 92
scanDepsUnchecked(nodeID, ds, i, st) ==
  IF i > Len(ds) THEN st
  ELSE scanDepsUnchecked(nodeID, ds, i + 1, [st EXCEPT !.inDegree[nodeID] = @ + 1])

RECURSIVE scanDeps(_, _, _, _)
\* getInDegree, inner loop (lines 91-101) over the prerequisites of nodeID
scanDeps(nodeID, ds, i, st) ==
  IF i > Len(ds) THEN st
  ELSE IF ds[i] \notin DOMAIN st.inDegree
    THEN [st EXCEPT !.err =
            Wrapf(ErrMissingDependency, <<"depends on non-existent node", nodeID, ds[i]>>)]
    ELSE scanDeps(nodeID, ds, i + 1, [st EXCEPT !.inDegree[nodeID] = @ + 1])

RECURSIVE getInDegreeLoop(_, _, _, _)
\* getInDegree, outer loop (line 90): order is the order the range visits keys
getInDegreeLoop(deps, order, k, st) ==
  IF k > Len(order) \/ st.err # NoError THEN st
  ELSE getInDegreeLoop(deps, order, k + 1,
                       scanDeps(order[k], deps[order[k]], 1, st))

getInDegree(deps, order) ==
  getInDegreeLoop(deps, order, 1,
                  [inDegree |-> [n \in DOMAIN deps |-> 0], err |-> NoError])

\* lines 36-41: the zero in-degree nodes in the order the range visits them
seedQueue(inDegree, order) ==
  LET IsZero(n) == inDegree[n] = 0 IN SelectSeq(order, IsZero)

RECURSIVE addReverse(_, _, _, _)
\* lines 45-47
addReverse(nodeID, ds, i, rev) ==
  IF i > Len(ds) THEN rev
  ELSE addReverse(nodeID, ds, i + 1, [rev EXCEPT ![ds[i]] = Append(@, nodeID)])

RECURSIVE reverseDepsLoop(_, _, _, _)
\* lines 43-48
reverseDepsLoop(deps, order, k, rev) ==
  IF k > Len(order) THEN rev
  ELSE reverseDepsLoop(deps, order, k + 1,
                       addReverse(order[k], deps[order[k]], 1, rev))

buildReverseDeps(deps, order) ==
  reverseDepsLoop(deps, order, 1, [n \in DOMAIN deps |-> <<>>])

\* nextQueue = append(nextQueue, d) (line 67).  nextQueue is queue[:0]: it
\* shares the backing array arr that the range of line 63 is reading, until
\* an append exceeds the capacity and Go moves it to a new array.
appendNext(s, d) ==
  LET nq == Append(s.next, d) IN
  IF s.shared /\ Len(nq) <= Len(s.arr)
    THEN [s EXCEPT !.next = nq, !.arr[Len(nq)] = d]
    ELSE [s EXCEPT !.next = nq, !.shared = FALSE]

RECURSIVE releaseDependents(_, _, _)
\* lines 64-69
releaseDependents(ds, j, s) ==
  IF j > Len(ds) THEN s
  ELSE LET d == ds[j]
           rest(s1) == releaseDependents(ds, j + 1,
                         IF s1.inDegree[d] = 0 THEN appendNext(s1, d) ELSE s1)
       IN Then([s EXCEPT !.inDegree[d] = @ - 1], rest)

RECURSIVE processLevel(_, _, _, _)
\* lines 63-70: `for _, nodeID := range queue` reads cell i of the backing
\* array when iteration i starts; visited logs the ids it read
processLevel(rev, qlen, i, s) ==
  IF i > qlen THEN s
  ELSE LET rest(s0) ==
             processLevel(rev, qlen, i + 1,
                          releaseDependents(rev[s0.arr[i]], 1,
                                            [s0 EXCEPT !.visited = Append(@, s0.arr[i])]))
       IN Then(s, rest)

RECURSIVE kahnLoop(_, _, _)
\* lines 53-73; one recursion per iteration of `for len(queue) > 0`
kahnLoop(rev, qlen, s) ==
  IF qlen = 0 THEN s
  ELSE LET begin(s0) ==
             [s0 EXCEPT !.levels = Append(@, [i \in 1..qlen |-> s0.arr[i]]),
                        !.processedCount = @ + qlen,
                        !.next = <<>>, !.shared = TRUE, !.visited = <<>>]
           rest(s2) ==
             kahnLoop(rev, Len(s2.next),
                      [s2 EXCEPT !.trace = Append(@, [level |-> s2.levels[Len(s2.levels)],
                                                      visited |-> s2.visited,
                                                      inDegree |-> [n \in DOMAIN rev |-> s2.inDegree[n]]]),
                                 !.arr = IF s2.shared THEN @ ELSE s2.next])
       IN Then(processLevel(rev, qlen, 1, Then(s, begin)), rest)

\* the returned pair (levels, err); trace is the log of the loop iterations
DagResult(levels, err, trace) == [levels |-> levels, err |-> err, trace |-> trace]

\* GetExecutionLevels, lines 50-79: the Kahn loop over the seeded queue and
\* the reverse adjacency, and the final count
levelsFrom(deps, inDegree, queue, rev) ==
  LET cap == Cardinality(DOMAIN deps)
      s0 == [arr |-> [i \in 1..cap |-> IF i <= Len(queue) THEN queue[i] ELSE Blank],
             inDegree |-> inDegree,
             levels |-> <<>>, processedCount |-> 0,
             next |-> <<>>, shared |-> TRUE, visited |-> <<>>,
             trace |-> <<>>]
      end(s) == IF s.processedCount # Cardinality(DOMAIN deps)
                  THEN DagResult(<<>>, ErrCyclicDependency, s.trace)
                  ELSE DagResult(s.levels, NoError, s.trace)
  IN Then(kahnLoop(rev, Len(queue), s0), end)

\* GetExecutionLevels, lines 26-80.  ordDeg, ordSeed, ordRev are the orders
\* in which the ranges of lines 90, 37 and 44 visit the keys.
GetExecutionLevels(deps, ordDeg, ordSeed, ordRev) ==
  IF Cardinality(DOMAIN deps) = 0 THEN DagResult(<<>>, NoError, <<>>)
  ELSE LET deg == getInDegree(deps, ordDeg) IN
    IF deg.err # NoError THEN DagResult(<<>>, deg.err, <<>>)
    ELSE levelsFrom(deps, deg.inDegree, seedQueue(deg.inDegree, ordSeed),
                    buildReverseDeps(deps, ordRev))

\* Every result GetExecutionLevels can return for deps, over all iteration
\* orders.  A key with an empty prerequisite list contributes nothing to the
\* loops of lines 90 and 44, and a key with a non-zero in-degree nothing to
\* the loop of line 37, so the orders range over the remaining keys only.
\* When no prerequisite is missing the in-degree table does not depend on the
\* order, and orders of line 44 that build the same reverse adjacency give
\* the same result, so the loop runs once per distinct reverse adjacency.
ExecutionLevelsOutcomes(deps) ==
  LET keyed == {n \in DOMAIN deps : deps[n] # <<>>}
      orders == Perms(keyed)
  IN IF \E n \in keyed : \E i \in 1..Len(deps[n]) : deps[n][i] \notin DOMAIN deps
       THEN {GetExecutionLevels(deps, o, <<>>, <<>>) : o \in orders}
       ELSE LET deg == getInDegree(deps, CHOOSE o \in orders : TRUE)
                zero == {n \in DOMAIN deps : deg.inDegree[n] = 0}
            IN IF DOMAIN deps = {} THEN {GetExecutionLevels(deps, <<>>, <<>>, <<>>)}
               ELSE {levelsFrom(deps, deg.inDegree, seedQueue(deg.inDegree, o2), rev) :
                       o2 \in Perms(zero),
                       rev \in {buildReverseDeps(deps, o3) : o3 \in orders}}

\* ------------------------------------------------- bounded prerequisite maps
\* prerequisite lists over the n nodes and the unknown id, as index lists
IndexLists(n) ==
  UNION {{l \in [1..k -> 0..n] : \A i \in 1..(k - 1) : l[i] <= l[i + 1]} :
           k \in 0..MaxDeps}

PoolIndex(x) == CHOOSE i \in 1..Len(IdPool) : IdPool[i] = x

\* the map of n nodes whose lists are rows
DependencyMap(n, rows) ==
  [x \in Nodes(n) |-> [j \in 1..Len(rows[PoolIndex(x)]) |->
                         NodeName(rows[PoolIndex(x)][j])]]

\* ======================================================= signature analysis
\* A callable is described by what reflection sees of it: whether it is nil,
\* whether it is a function, its parameter types, whether it is variadic and
\* its return types.
Callable(ins, outs) ==
  [isNil |-> FALSE, isFunc |-> TRUE, ins |-> ins, variadic |-> FALSE, outs |-> outs]
NilCallable ==
  [isNil |-> TRUE, isFunc |-> FALSE, ins |-> <<>>, variadic |-> FALSE, outs |-> <<>>]

\* the nil value of a function type, such as `var f func(context.Context) error`
NilFunc(ins, outs) == [Callable(ins, outs) EXCEPT !.isNil = TRUE]

\* a value that is not a function, such as a string
NotAFunction ==
  [isNil |-> FALSE, isFunc |-> FALSE, ins |-> <<>>, variadic |-> FALSE, outs |-> <<>>]

\* the types of the model: context.Context and a type of the caller that
\* implements it, error and a type of the caller that implements it, and
\* types that implement neither
ContextTypes == {"context", "myctx"}
ErrorTypes == {"error", "myerr"}
SigTypes == ContextTypes \cup ErrorTypes \cup {"int"}

ImplementsContext(t) == t \in ContextTypes
ImplementsError(t) == t \in ErrorTypes

\* an analysis that does not look for a variadic parameter
neverVariadic(fn) == FALSE

\* reflect: fnType.IsVariadic()
IsVariadic(fn) == fn.variadic

validateParameters(fn) ==
  IF Len(fn.ins) < 1 THEN ErrMustHaveAtLeastContext
  ELSE IF IsVariadic(fn) THEN ErrVariadicNotSupported
  ELSE IF ~ImplementsContext(fn.ins[1]) THEN ErrFirstParamMustBeContext
  ELSE NoError

validateReturns(fn) ==
  CASE Len(fn.outs) = 0 -> ErrMustReturnAtLeastError
    [] Len(fn.outs) = 1 ->
         IF ~ImplementsError(fn.outs[1]) THEN ErrSingleReturnMustBeError ELSE NoError
    [] Len(fn.outs) = 2 ->
         IF ~ImplementsError(fn.outs[2]) THEN ErrSecondReturnMustBeError ELSE NoError
    [] OTHER -> ErrTooManyReturnValues

validateFunction(fn) ==
  IF ~fn.isFunc THEN ErrMustBeFunction
  ELSE IF validateParameters(fn) # NoError
    THEN Wrapf(validateParameters(fn), <<"invalid parameters">>)
  ELSE IF validateReturns(fn) # NoError
    THEN Wrapf(validateReturns(fn), <<"invalid returns">>)
  ELSE NoError

\* the type of a task that returns only an error
NoOutput == "none"

\* `fn == nil` (line 25): the interface value holds nothing.  A nil value of
\* a function type is held with its type, and is not nil here
IsNilInterface(fn) == fn.isNil /\ ~fn.isFunc

analyzeFunctionSignature(fn) ==
  IF IsNilInterface(fn) THEN [err |-> ErrMustBeFunction, inputTypes |-> <<>>, outputType |-> NoOutput]
  ELSE IF validateFunction(fn) # NoError
    THEN [err |-> Wrapf(validateFunction(fn), <<"invalid function signature">>),
          inputTypes |-> <<>>, outputType |-> NoOutput]
  ELSE [err |-> NoError, inputTypes |-> fn.ins,
        outputType |-> IF Len(fn.outs) = 2 THEN fn.outs[1] ELSE NoOutput]

\* ==================================================================== tasks
RuntimeInputSpec == "RUNTIME"
TaskResultInputSpec == "TASK_RESULT"

\* lyra.Use and lyra.UseRun, without a field path
Use(source) == [Type |-> TaskResultInputSpec, Source |-> source, Field |-> <<>>]
UseRun(source) == [Use(source) EXCEPT !.Type = RuntimeInputSpec]

\* ids that strings.TrimSpace reduces to the empty string, and ids that it
\* reduces to the id a
WhitespaceIds == {"", " "}
PaddedIds == {" a", "a ", " a "}

\* strings.TrimSpace
TrimSpace(id) ==
  IF id \in WhitespaceIds THEN "" ELSE IF id \in PaddedIds THEN "a" ELSE id
TrimSpaceIsEmpty(id) == TrimSpace(id) = ""

\* a factory that only asks for enough descriptors
tooFewSpecs(specCount, typeCount) == specCount < typeCount - 1

\* NewTask, line 105
countMismatch(specCount, typeCount) == specCount # typeCount - 1

NoTask == [id |-> "", fn |-> NilCallable, inputSpecs |-> <<>>,
           inputTypes |-> <<>>, outputType |-> NoOutput]

\* internal.NewTask: the pair (task, err)
NewTask(id, fn, inputSpecs) ==
  IF TrimSpaceIsEmpty(id) THEN [task |-> NoTask, err |-> ErrTaskIDCannotBeEmpty]
  ELSE LET fnInfo == analyzeFunctionSignature(fn) IN
    IF fnInfo.err # NoError
      THEN [task |-> NoTask, err |-> Wrapf(fnInfo.err, <<"invalid function for task", id>>)]
    ELSE IF countMismatch(Len(inputSpecs), Len(fnInfo.inputTypes))
      THEN [task |-> NoTask,
            err |-> Wrapf(ErrTaskParamCountMismatch,
                          <<"invalid number of input specs for task", id>>)]
    ELSE [task |-> [id |-> id, fn |-> fn, inputSpecs |-> inputSpecs,
                    inputTypes |-> fnInfo.inputTypes,
                    outputType |-> fnInfo.outputType],
          err |-> NoError]

\* a Go slice: nil or not, and its elements
Slice(isNil, elems) == [isNil |-> isNil, elems |-> elems]

\* a GetDependencies that takes the source of every descriptor
dependsOnAny(spec) == TRUE

\* GetDependencies, line 128
dependsOn(spec) == spec.Type = TaskResultInputSpec

RECURSIVE appendDeps(_, _, _)
\* GetDependencies, lines 127-131
appendDeps(specs, i, deps) ==
  IF i > Len(specs) THEN deps
  ELSE appendDeps(specs, i + 1,
                  IF dependsOn(specs[i])
                    THEN Slice(FALSE, Append(deps.elems, specs[i].Source))
                    ELSE deps)

\* GetDependencies, lines 125-133: the slice it returns
dependencySlice(task) == appendDeps(task.inputSpecs, 1, Slice(FALSE, <<>>))

\* Task.GetDependencies
GetDependencies(task) == dependencySlice(task).elems

\* ============================================================= result store
\* a stored value: who wrote it ("run" for a runtime input) and its Go type
Value(writer, type) == [writer |-> writer, type |-> type]
NoValue == Value("", "")

\* a Get that answers a missing key with the zero value
GetOrZero(store, key) ==
  [value |-> IF key \in DOMAIN store THEN store[key] ELSE NoValue, err |-> NoError]

\* Result.Get: the pair (value, err)
Get(store, key) ==
  IF key \in DOMAIN store THEN [value |-> store[key], err |-> NoError]
  ELSE [value |-> NoValue, err |-> Wrapf(ErrTaskNotFound, <<"taskID", key>>)]

\* a set that leaves a key that is there as it is
setIfAbsent(store, key, value) ==
  [k \in DOMAIN store \cup {key} |-> IF k \in DOMAIN store THEN store[k] ELSE value]

\* Result.set
set(store, key, value) ==
  [k \in DOMAIN store \cup {key} |-> IF k = key THEN value ELSE store[k]]

EmptyMap == [k \in {} |-> NoValue]

\* NewResult: a store with an empty map
NewResult == EmptyMap

RECURSIVE seedStore(_, _, _)
\* initialiseResult, lines 140-142: one set per key of the runtime inputs
seedStore(store, runInputs, keys) ==
  IF keys = {} THEN store
  ELSE LET key == CHOOSE x \in keys : TRUE
       IN seedStore(set(store, key, runInputs[key]), runInputs, keys \ {key})

\* initialiseResult, lines 138-144
initialiseResult(runInputs) == seedStore(NewResult, runInputs, DOMAIN runInputs)

\* the type of an untyped nil held in an interface: there is none
UntypedNil == "nil"

\* reflect.ValueOf(value).Type() panics on the zero Value that ValueOf
\* returns for an untyped nil
TypeOfPanics(value) == value.type = UntypedNil

\* a check that lets every type through
AlwaysAssignable(actual, expected) == TRUE

\* reflect: actual.AssignableTo(expected)
AssignableTo(actual, expected) == actual = expected \/ expected = "any"

\* ------------------------------------------------- values with fields
\* A field path is a string; it is held as the sequence of its names and of
\* the separators "." between them.
Dot == "."

RECURSIVE joinPath(_)
\* strings.Join(fieldPath, "."): an empty element adds no name
joinPath(fieldPath) ==
  IF fieldPath = <<>> THEN <<>>
  ELSE LET head == IF fieldPath[1] = "" THEN <<>> ELSE <<fieldPath[1]>>
       IN IF Len(fieldPath) = 1 THEN head
          ELSE head \o <<Dot>> \o joinPath(Tail(fieldPath))

RECURSIVE TrimLeft(_)
TrimLeft(path) ==
  IF path # <<>> /\ path[1] = Dot THEN TrimLeft(Tail(path)) ELSE path

RECURSIVE TrimRight(_)
TrimRight(path) ==
  IF path # <<>> /\ path[Len(path)] = Dot
    THEN TrimRight([i \in 1..(Len(path) - 1) |-> path[i]])
    ELSE path

\* strings.Trim(path, ".")
TrimDots(path) == TrimRight(TrimLeft(path))

\* lyra.Use and lyra.UseRun with a field path
UseField(source, fieldPath) ==
  [Use(source) EXCEPT !.Field = IF Len(fieldPath) > 0 THEN TrimDots(joinPath(fieldPath))
                                 ELSE <<>>]
UseRunField(source, fieldPath) ==
  [UseField(source, fieldPath) EXCEPT !.Type = RuntimeInputSpec]

RECURSIVE Split(_)
\* strings.Split(path, "."): the names between the separators, the empty
\* string where two separators meet
Split(path) ==
  IF \A i \in 1..Len(path) : path[i] # Dot
    THEN <<IF path = <<>> THEN "" ELSE path[1]>>
    ELSE LET k == CHOOSE i \in 1..Len(path) :
                    path[i] = Dot /\ \A j \in 1..(i - 1) : path[j] # Dot
         IN <<IF k = 1 THEN "" ELSE path[1]>>
              \o Split([i \in 1..(Len(path) - k) |-> path[k + i]])

\* The types of the client's values: two structs, pointers to them, a
\* pointer to a pointer, and scalars.  User has an unexported field and a
\* pointer field.
StructField(type, exported) == [type |-> type, exported |-> exported]
StructTypes == {"User", "Address"}
PointerTypes == {"*User", "*Address", "**User", "*string"}

StructFields(t) ==
  CASE t = "User" ->
         ("Name" :> StructField("string", TRUE)) @@
         ("secret" :> StructField("int", FALSE)) @@
         ("Address" :> StructField("Address", TRUE)) @@
         ("Home" :> StructField("*Address", TRUE))
    [] t = "Address" -> ("City" :> StructField("string", TRUE))

PointerElem(t) ==
  CASE t = "*User" -> "User"
    [] t = "*Address" -> "Address"
    [] t = "**User" -> "*User"
    [] t = "*string" -> "string"

\* reflect.Value.Kind
Kind(t) ==
  IF t \in PointerTypes THEN "ptr" ELSE IF t \in StructTypes THEN "struct" ELSE t

\* A value with fields: its type, the places below it where a pointer is nil
\* (a place is the sequence of dereferences "*" and field names that leads to
\* it), and the place it was taken from in the stored value.
GoValue(writer, type, nils) ==
  [writer |-> writer, type |-> type, nils |-> nils, at |-> <<>>]

\* reflect.Value.IsNil of a pointer
IsNil(v) == <<>> \in v.nils

\* the value one step below v
Below(v, step, type) ==
  [v EXCEPT !.type = type,
            !.nils = {Tail(q) : q \in {r \in v.nils : r # <<>> /\ Head(r) = step}},
            !.at = Append(@, step)]

\* reflect.Value.Elem and reflect.Value.FieldByName
Elem(v) == Below(v, "*", PointerElem(v.type))
FieldByName(v, name) == Below(v, name, StructFields(v.type)[name].type)

\* fmt.Errorf and errors.New of the extractor: no sentinel, the message names
\* the field
FieldError(message, fieldName) == [Err(message) EXCEPT !.ctx = <<fieldName>>]

\* a walk that follows a pointer to a pointer
derefTwice(v) ==
  IF Kind(PointerElem(v.type)) = "ptr" /\ ~IsNil(Elem(v)) THEN Elem(Elem(v)) ELSE Elem(v)

\* extractNestedField, lines 160-162
deref(v) == Elem(v)

RECURSIVE extractLoop(_, _, _)
\* extractNestedField, lines 154-178: the loop over the names of the path
extractLoop(current, fields, n) ==
  IF n > Len(fields) THEN [value |-> current, err |-> NoError]
  ELSE LET fieldName == fields[n]
           fail(message) == [value |-> NoValue, err |-> FieldError(message, fieldName)]
       IN IF Kind(current.type) = "ptr" /\ IsNil(current)
            THEN fail("nil pointer encountered")
          ELSE IF Kind((IF Kind(current.type) = "ptr" THEN deref(current) ELSE current).type)
                    # "struct"
            THEN fail("is not a struct")
          ELSE LET target == IF Kind(current.type) = "ptr" THEN deref(current) ELSE current
               IN IF fieldName \notin DOMAIN StructFields(target.type)
                    THEN fail("not found")
                  ELSE IF ~StructFields(target.type)[fieldName].exported
                    THEN fail("is not exported")
                  ELSE extractLoop(FieldByName(target, fieldName), fields, n + 1)

\* extractNestedField, lines 146-181: the pair (value, err)
extractNestedField(value, path) ==
  IF value.type = UntypedNil
    THEN [value |-> NoValue, err |-> Err("value is nil")]
    ELSE extractLoop(value, Split(path), 1)

\* resolveInputs, one iteration of the loop over the descriptors (i is the
\* 1-based descriptor index): the pair (value, err), or a panic
resolveSpec(task, i, store) ==
  LET spec == task.inputSpecs[i]
      got == Get(store, spec.Source)
      field == IF got.err # NoError \/ spec.Field = <<>>
                 THEN [value |-> got.value, err |-> NoError]
                 ELSE extractNestedField(got.value, spec.Field)
  IN IF got.err # NoError
       THEN [value |-> NoValue, panics |-> FALSE,
             err |-> Wrapf(got.err, <<"failed to get for task", spec.Source, task.id>>)]
     ELSE IF field.err # NoError
       THEN [value |-> NoValue, panics |-> FALSE,
             err |-> Wrapf(field.err, <<"parameter", i + 1>>)]
     ELSE IF TypeOfPanics(field.value)
       THEN [value |-> NoValue, panics |-> TRUE, err |-> NoError]
     ELSE IF ~AssignableTo(field.value.type, task.inputTypes[i + 1])
       THEN [value |-> NoValue, panics |-> FALSE,
             err |-> Wrapf(ErrInvalidParamType, <<"parameter", i + 1>>)]
     ELSE [value |-> field.value, panics |-> FALSE, err |-> NoError]

\* a resolver that puts the value of descriptor i at position i
argIndexOfDescriptor(i) == i

\* resolveInputs, line 138: args[i+1], as a 0-based position
argIndex(i) == i + 1

RECURSIVE resolveLoop(_, _, _, _)
\* resolveInputs, lines 110-141; i is the 0-based index of the range
resolveLoop(task, store, i, args) ==
  IF i >= Len(task.inputSpecs) THEN [args |-> args, panics |-> FALSE, err |-> NoError]
  ELSE LET r == resolveSpec(task, i + 1, store) IN
       IF r.panics THEN [args |-> <<>>, panics |-> TRUE, err |-> NoError]
       ELSE IF r.err # NoError THEN [args |-> <<>>, panics |-> FALSE, err |-> r.err]
       ELSE resolveLoop(task, store, i + 1, [args EXCEPT ![argIndex(i) + 1] = r.value])

\* resolveInputs, lines 101-142: the pair (args, err), or a panic.  The
\* vector is made with one zero Value per parameter, and the token put first
resolveInputs(ctx, task, store) ==
  resolveLoop(task, store, 0,
              [j \in 1..Len(task.inputTypes) |-> IF j = 1 THEN ctx ELSE NoValue])

\* ==================================================== inputs of the model
Producer == Callable(<<"context">>, <<"int", "error">>)
Consumer == Callable(<<"context", "int">>, <<"int", "error">>)
NoContext == Callable(<<>>, <<"string">>)

DoCall(id, fn, inputs) == [id |-> id, fn |-> fn, inputs |-> inputs]

\* the Do calls a client makes: two roots (b takes a runtime input), two
\* tasks fed by a, one fed by d, and four calls that fail validation
DoCalls ==
  { DoCall("a", Producer, <<>>),
    DoCall("b", Consumer, <<UseRun("k")>>),
    DoCall("c", Consumer, <<Use("a")>>),
    DoCall("d", Consumer, <<Use("a")>>),
    DoCall("e", Consumer, <<Use("d")>>),
    DoCall(" ", Producer, <<>>),
    DoCall("a", NilCallable, <<>>),
    DoCall("b", Producer, <<UseRun("k")>>),
    DoCall("c", NoContext, <<>>) }

\* the Do calls of a client that uses the name of a runtime input as a task
\* id: the task k, a task fed by the runtime input k and one fed by the
\* task k
KeepCalls ==
  { DoCall("k", Producer, <<>>),
    DoCall("b", Consumer, <<UseRun("k")>>),
    DoCall("c", Consumer, <<Use("k")>>) }

TaskIds == {c.id : c \in DoCalls \cup KeepCalls}

\* a callable of two inputs, and one that returns a string
Merger == Callable(<<"context", "int", "int">>, <<"int", "error">>)
Stringer == Callable(<<"context", "int">>, <<"string", "error">>)

\* the Do calls of a client whose registry can hold a graph error: the
\* tasks a to d as above, a second valid task for the id c whose source k is
\* a runtime key and not a task, and a task e that is fed by d and by itself
GraphCalls ==
  { DoCall("a", Producer, <<>>),
    DoCall("b", Consumer, <<UseRun("k")>>),
    DoCall("c", Consumer, <<Use("a")>>),
    DoCall("c", Stringer, <<Use("k")>>),
    DoCall("d", Consumer, <<Use("a")>>),
    DoCall("e", Merger, <<Use("d"), Use("e")>>) }

\* a callable that returns an interface value, and one that returns only an
\* error
AnyProducer == Callable(<<"context">>, <<"any", "error">>)
Checker == Callable(<<"context">>, <<"error">>)

\* the Do calls of a client whose values may not fit: a returns an interface
\* value, d returns no value; b takes the runtime input k and the value of
\* a, e the value of d
ValueCalls ==
  { DoCall("a", AnyProducer, <<>>),
    DoCall("d", Checker, <<>>),
    DoCall("b", Merger, <<UseRun("k"), Use("a")>>),
    DoCall("e", Consumer, <<Use("d")>>) }

\* the runtime input maps that client passes to Run: k absent, an int, a
\* string, or nil
ValueInputs ==
  {EmptyMap} \cup {[k \in {"k"} |-> Value("run", t)] : t \in {"int", "string", UntypedNil}}

\* the runtime input maps that client passes to Run: none, or k as a string
KeepInputs == {EmptyMap, [k \in {"k"} |-> Value("run", "string")]}

\* the runtime input maps a client passes to Run
RunInputs == {EmptyMap, [k \in {"k"} |-> Value("run", "int")]}

\* what a user callable may return: a value, its own error, or the
\* cancellation error when the token it was given is cancelled
CallOutcomes(isCancelled) ==
  {NoError, ErrTaskFailed} \cup (IF isCancelled THEN {ErrContextCanceled} ELSE {})

\* the Do calls that concurrent threads make: valid tasks, distinct ids
RegCalls == {call \in DoCalls : NewTask(call.id, call.fn, call.inputs).err = NoError}

\* ================================================================ sync.RWMutex
FreeMutex == [writer |-> FALSE, readers |-> 0]

\* a lock that excludes nobody
CanAlwaysLock(m) == TRUE

\* Lock goes on when there is no writer and no reader, RLock when there is
\* no writer
CanLock(m) == ~m.writer /\ m.readers = 0
CanRLock(m) == ~m.writer
Lock(m) == [m EXCEPT !.writer = TRUE]
Unlock(m) == [m EXCEPT !.writer = FALSE]
RLock(m) == [m EXCEPT !.readers = @ + 1]
RUnlock(m) == [m EXCEPT !.readers = @ - 1]

\* ==================================================================== state
VARIABLES
  dagDeps,     \* DependencyDAG.deps
  dagPC,       \* "new" after NewDependencyDAG, "done" after GetExecutionLevels
  dagResult,   \* what GetExecutionLevels returned
  tasks,       \* Lyra.tasks: the registry, id -> task
  error,       \* Lyra.error: the sticky registration error
  mu,          \* Lyra.mu: the read-write lock of the registry
  doers,       \* per concurrent Do call: where it is, and the registry it read
  runPC,       \* where Run is: idle, getStages, process, inline, wait, returned
  cancelled,   \* whether ctx is cancelled
  data,        \* Result.data of the current run
  stages,      \* the levels Run got from getStages
  stageIdx,    \* the level process is at (1-based)
  w,           \* per task: the position of executeTask, its arguments, its error
  wg,          \* the sync.WaitGroup counter of executeStage
  errChan,     \* the buffered error channel of executeStage
  stageErr,    \* what the last executeStage returned
  runRet,      \* what Run returned: (result, err)
  kept,        \* the store of an earlier Run that the caller still holds
  rs,          \* a Result of its own, with the threads that use it
  unit         \* a function under analysis: its input and what it returned

dagVars == <<dagDeps, dagPC, dagResult>>
regVars == <<tasks, error>>
lockVars == <<mu, doers>>
runVars == <<runPC, cancelled, data, stages, stageIdx, w, wg, errChan, stageErr, runRet,
            kept>>
unitVars == <<rs, unit>>
vars == <<dagDeps, dagPC, dagResult, tasks, error, mu, doers, kept, rs, unit,
          runPC, cancelled, data, stages, stageIdx, w, wg, errChan, stageErr, runRet>>

\* the caller holds a store (held) with the content data; same tells
\* whether it is the object the Run in progress writes to
Kept(held, same, content) == [held |-> held, same |-> same, data |-> content]
NotKept == Kept(FALSE, FALSE, EmptyMap)

\* what the caller sees in the store it holds after the store of the Run in
\* progress got the content newData
KeptAfter(k, newData) == IF k.same THEN [k EXCEPT !.data = newData] ELSE k

\* a Run that uses the store of the Run before it again
sameStoreForRun(k) == k

\* initialiseResult, line 139: NewResult() is a new object, not the one the
\* caller may hold
newStoreForRun(k) == [k EXCEPT !.same = FALSE]

NoResult == [pc |-> "off"]
NoUnit == [pc |-> "off"]
InitUnits == rs = NoResult /\ unit = NoUnit

Doer(pc, seen) == [pc |-> pc, seen |-> seen]
IdleDoer == Doer("idle", <<>>)
Worker(pc, i, args, err) == [pc |-> pc, i |-> i, args |-> args, err |-> err]
IdleWorker == Worker("idle", 0, <<>>, NoError)
RunReturn(hasResult, err) == [hasResult |-> hasResult, err |-> err]

\* lyra.New, and no Run in progress
InitLyra ==
  /\ tasks = [k \in {} |-> NoTask]
  /\ error = NoError
  /\ runPC = "idle"
  /\ cancelled = FALSE
  /\ data = EmptyMap
  /\ stages = <<>>
  /\ stageIdx = 0
  /\ w = [id \in TaskIds |-> IdleWorker]
  /\ wg = 0
  /\ errChan = <<>>
  /\ stageErr = NoError
  /\ runRet = RunReturn(FALSE, NoError)
  /\ mu = FreeMutex
  /\ doers = [call \in DoCalls |-> IdleDoer]
  /\ kept = NotKept

RECURSIVE DrawRows(_, _, _, _, _, _)
\* dagDeps is a map of n nodes: the lists of nodes i..n are drawn from lists,
\* with at most budget prerequisites in total and no list shorter than the
\* one before it (node names are interchangeable, since every iteration
\* order is explored)
DrawRows(i, n, lists, rows, budget, minLen) ==
  IF i > n THEN dagDeps = DependencyMap(n, rows)
  ELSE \E l \in lists :
         /\ Len(l) >= minLen
         /\ Len(l) <= budget
         /\ DrawRows(i + 1, n, lists, Append(rows, l), budget - Len(l), Len(l))

\* NewDependencyDAG
InitDAG ==
  /\ \E n \in 0..MaxNodes :
       LET lists == IndexLists(n) IN DrawRows(1, n, lists, <<>>, MaxEdges, 0)
  /\ dagPC = "new"
  /\ dagResult = DagResult(<<>>, NoError, <<>>)
  /\ InitLyra
  /\ InitUnits

\* one call of DependencyDAG.GetExecutionLevels
CallGetExecutionLevels ==
  /\ dagPC = "new"
  /\ \E r \in ExecutionLevelsOutcomes(dagDeps) : dagResult' = r
  /\ dagPC' = "done"
  /\ UNCHANGED <<unitVars, dagDeps, regVars, lockVars, runVars>>

NextDAG == CallGetExecutionLevels

SpecDAG == InitDAG /\ [][NextDAG]_vars

\* ================================================================ Lyra.Do
\* a lookup that never finds the id
neverExists(id) == FALSE

\* Do, line 85: the id is looked up in the registry
exists(id) == id \in DOMAIN tasks

\* a Do that looks the id up before it makes the task
DoLooksUpFirst(call) ==
  LET made == NewTask(call.id, call.fn, call.inputs) IN
  /\ runPC # "panicked"
  /\ CanLock(mu)
  /\ mu' = Unlock(Lock(mu))
  /\ IF call.id \in DOMAIN tasks
       THEN /\ error' = Wrapf(ErrDuplicateTask, <<"failed to add task", call.id>>)
            /\ UNCHANGED tasks
     ELSE IF made.err # NoError
       THEN /\ error' = Wrapf(made.err, <<"failed to add task", call.id>>)
            /\ UNCHANGED tasks
     ELSE /\ tasks' = [k \in DOMAIN tasks \cup {call.id} |->
                         IF k = call.id THEN made.task ELSE tasks[k]]
          /\ UNCHANGED error
  /\ UNCHANGED <<unitVars, dagVars, runVars, doers>>

\* a Do that binds the id to the new task also when it reports a duplicate
DoKeepsLast(call) ==
  LET made == NewTask(call.id, call.fn, call.inputs) IN
  /\ runPC # "panicked"
  /\ CanLock(mu)
  /\ mu' = Unlock(Lock(mu))
  /\ IF made.err # NoError
       THEN /\ error' = Wrapf(made.err, <<"failed to add task", call.id>>)
            /\ UNCHANGED tasks
       ELSE /\ error' = IF exists(call.id)
                          THEN Wrapf(ErrDuplicateTask, <<"failed to add task", call.id>>)
                          ELSE error
            /\ tasks' = [k \in DOMAIN tasks \cup {call.id} |->
                           IF k = call.id THEN made.task ELSE tasks[k]]
  /\ UNCHANGED <<unitVars, dagVars, runVars, doers>>

\* Do holds the write lock of the registry from entry to return, so that
\* the whole call is one step
Do(call) ==
  LET made == NewTask(call.id, call.fn, call.inputs) IN
  /\ runPC # "panicked"
  /\ CanLock(mu)
  /\ mu' = Unlock(Lock(mu))
  /\ IF made.err # NoError
       THEN /\ error' = Wrapf(made.err, <<"failed to add task", call.id>>)
            /\ UNCHANGED tasks
     ELSE IF exists(call.id)
       THEN /\ error' = Wrapf(ErrDuplicateTask, <<"failed to add task", call.id>>)
            /\ UNCHANGED tasks
     ELSE /\ tasks' = [k \in DOMAIN tasks \cup {call.id} |->
                         IF k = call.id THEN made.task ELSE tasks[k]]
          /\ UNCHANGED error
  /\ UNCHANGED <<unitVars, dagVars, runVars, doers>>

\* Do as the steps of a thread that runs next to other Do calls.
\* Line 77: the write lock is taken
DoLock(call) ==
  /\ doers[call].pc = "idle"
  /\ CanLock(mu)
  /\ mu' = Lock(mu)
  /\ doers' = [doers EXCEPT ![call] = Doer("locked", <<>>)]
  /\ UNCHANGED <<unitVars, dagVars, regVars, runVars>>

\* lines 80-88: the task is made and the id looked up; line 89 begins to
\* read the map it is going to write
DoCheck(call) ==
  LET made == NewTask(call.id, call.fn, call.inputs) IN
  /\ doers[call].pc = "locked"
  /\ IF made.err # NoError
       THEN /\ error' = Wrapf(made.err, <<"failed to add task", call.id>>)
            /\ doers' = [doers EXCEPT ![call] = Doer("unlock", <<>>)]
     ELSE IF exists(call.id)
       THEN /\ error' = Wrapf(ErrDuplicateTask, <<"failed to add task", call.id>>)
            /\ doers' = [doers EXCEPT ![call] = Doer("unlock", <<>>)]
     ELSE /\ doers' = [doers EXCEPT ![call] = Doer("insert", tasks)]
          /\ UNCHANGED error
  /\ UNCHANGED <<unitVars, dagVars, tasks, mu, runVars>>

\* line 89: the map is written; a map write is not atomic, it puts back
\* what it read with the new entry added
DoInsert(call) ==
  LET made == NewTask(call.id, call.fn, call.inputs)
      seen == doers[call].seen
  IN
  /\ doers[call].pc = "insert"
  /\ tasks' = [k \in DOMAIN seen \cup {call.id} |->
                 IF k = call.id THEN made.task ELSE seen[k]]
  /\ doers' = [doers EXCEPT ![call] = Doer("unlock", <<>>)]
  /\ UNCHANGED <<unitVars, dagVars, error, mu, runVars>>

\* line 78: the deferred Unlock
DoUnlock(call) ==
  /\ doers[call].pc = "unlock"
  /\ mu' = Unlock(mu)
  /\ doers' = [doers EXCEPT ![call] = Doer("done", <<>>)]
  /\ UNCHANGED <<unitVars, dagVars, regVars, runVars>>

\* ================================================================ Lyra.Run
ResetWorkers == [id \in TaskIds |-> IdleWorker]

\* Run returns (result, nil) or (nil, err)
Return(hasResult, err) ==
  /\ runRet' = RunReturn(hasResult, err)
  /\ runPC' = "returned"

\* a Run that does not look at the sticky error
ignoresBuildError == FALSE

\* Run, line 120: is there a sticky registration error
hasBuildError == error # NoError

\* a Run that forgets the sticky error once it has reported it
RunCallClearsError(runInputs, ctxCancelled) ==
  /\ runPC \in {"idle", "returned"}
  /\ cancelled' = ctxCancelled
  /\ stages' = <<>>
  /\ stageIdx' = 0
  /\ w' = ResetWorkers
  /\ wg' = 0
  /\ errChan' = <<>>
  /\ stageErr' = NoError
  /\ IF hasBuildError
       THEN /\ Return(FALSE, Wrapf(error, <<"build error">>))
            /\ data' = EmptyMap
       ELSE /\ data' = initialiseResult(runInputs)
            /\ runPC' = "getStages"
            /\ runRet' = RunReturn(FALSE, NoError)
  /\ kept' = KeptAfter(newStoreForRun(kept), data')
  /\ error' = NoError
  /\ UNCHANGED <<unitVars, dagVars, tasks, lockVars>>

\* Run, lines 119-124: the sticky-error check and initialiseResult
RunCall(runInputs, ctxCancelled) ==
  /\ runPC \in {"idle", "returned"}
  /\ cancelled' = ctxCancelled
  /\ stages' = <<>>
  /\ stageIdx' = 0
  /\ w' = ResetWorkers
  /\ wg' = 0
  /\ errChan' = <<>>
  /\ stageErr' = NoError
  /\ IF hasBuildError
       THEN /\ Return(FALSE, Wrapf(error, <<"build error">>))
            /\ data' = EmptyMap
       ELSE /\ data' = initialiseResult(runInputs)
            /\ runPC' = "getStages"
            /\ runRet' = RunReturn(FALSE, NoError)
  /\ kept' = KeptAfter(newStoreForRun(kept), data')
  /\ UNCHANGED <<unitVars, dagVars, regVars, lockVars>>

\* getStages, lines 146-160, under the read lock
taskGraphOf(registry) == [id \in DOMAIN registry |-> GetDependencies(registry[id])]
taskGraph == taskGraphOf(tasks)

\* Run, lines 125-128
GetStages ==
  /\ runPC = "getStages"
  /\ CanRLock(mu)
  /\ mu' = RUnlock(RLock(mu))
  /\ \E r \in ExecutionLevelsOutcomes(taskGraph) :
       IF r.err # NoError
         THEN /\ Return(FALSE, Wrapf(Wrapf(r.err, <<"failed to build graph">>),
                                     <<"failed to get stages">>))
              /\ UNCHANGED <<stages, stageIdx>>
         ELSE /\ stages' = r.levels
              /\ stageIdx' = 1
              /\ runPC' = "process"
              /\ UNCHANGED runRet
  /\ UNCHANGED <<unitVars, dagVars, kept, regVars, doers, cancelled, data, w, wg, errChan, stageErr>>

\* a process that drops the error of a level
StageNeverFails(err) == FALSE

\* process, line 165: does the error of a level end the loop
StageFailed(err) == err # NoError

\* process gets err from executeStage (lines 164-168), and Run what process
\* returns (lines 130-135)
AfterStage(err) ==
  /\ stageErr' = err
  /\ IF StageFailed(err)
       THEN /\ Return(FALSE, Wrapf(Wrapf(err, <<"execute stage">>),
                                   <<"failed to process stages">>))
            /\ UNCHANGED stageIdx
       ELSE /\ stageIdx' = stageIdx + 1
            /\ runPC' = "process"
            /\ UNCHANGED runRet

\* process, line 163, and the entry of executeStage, lines 173-188: the end
\* of the loop, the inline call for a level of one task, or the fan-out
NextStage ==
  /\ runPC = "process"
  /\ IF stageIdx > Len(stages)
       THEN /\ Return(TRUE, NoError)
            /\ UNCHANGED <<w, wg, errChan>>
     ELSE IF Len(stages[stageIdx]) = 1
       THEN /\ w' = [w EXCEPT ![stages[stageIdx][1]] = Worker("ready", 0, <<>>, NoError)]
            /\ runPC' = "inline"
            /\ UNCHANGED <<wg, errChan, runRet>>
     ELSE /\ w' = [id \in TaskIds |->
                     IF \E j \in 1..Len(stages[stageIdx]) : stages[stageIdx][j] = id
                       THEN Worker("ready", 0, <<>>, NoError) ELSE w[id]]
          /\ wg' = Len(stages[stageIdx])
          /\ errChan' = <<>>
          /\ runPC' = "wait"
          /\ UNCHANGED runRet
  /\ UNCHANGED <<unitVars, dagVars, kept, regVars, lockVars, cancelled, data, stages, stageIdx, stageErr>>

\* the token the caller gave to Run, and one that is never cancelled
RunContext == "ctx"
Background == "background"

\* has the token been cancelled
TokenCancelled(token) == token = RunContext /\ cancelled

\* a resolver that hands the callable a token of its own
freshContext == Background

\* resolveInputs, line 108: argument 0 is the token Run was given
forwardedContext == RunContext

\* a lookup that keeps the read lock
keepReadLock(m) == m

\* executeTask, line 210: the read lock is released before the inputs are
\* resolved and the callable is invoked
unlockAfterLookup(m) == RUnlock(m)

\* executeTask, lines 208-210: the task is looked up under the read lock
Lookup(id) ==
  /\ w[id].pc = "ready"
  /\ CanRLock(mu)
  /\ mu' = unlockAfterLookup(RLock(mu))
  /\ w' = [w EXCEPT ![id] = Worker("resolve", 1, <<forwardedContext>>, NoError)]
  /\ UNCHANGED <<unitVars, dagVars, kept, regVars, doers, runPC, cancelled, data, stages, stageIdx,
                 wg, errChan, stageErr, runRet>>

\* executeTask returns err: in a level of one task executeStage returns it
\* at once (line 174); a worker goes on to report it (lines 184-186) or, with
\* no error, ends (wg.Done).  When the error is that of resolveInputs there
\* is no argument vector
TaskEnds(id, err) ==
  IF runPC = "inline"
    THEN /\ w' = [w EXCEPT ![id] = [@ EXCEPT !.pc = IF err = NoError THEN "done" ELSE "failed",
                                             !.args = IF w[id].pc = "resolve" THEN <<>> ELSE @,
                                             !.err = err]]
         /\ AfterStage(err)
         /\ UNCHANGED <<wg, errChan>>
    ELSE /\ w' = [w EXCEPT ![id] = [@ EXCEPT !.pc = IF err = NoError THEN "done" ELSE "erred",
                                             !.args = IF w[id].pc = "resolve" THEN <<>> ELSE @,
                                             !.err = err]]
         /\ wg' = IF err = NoError THEN wg - 1 ELSE wg
         /\ UNCHANGED <<errChan, stageErr, stageIdx, runPC, runRet>>

\* a panic that nothing recovers ends the process, and every thread with it
Panic(id) ==
  /\ runPC' = "panicked"
  /\ w' = [x \in TaskIds |->
            IF x = id THEN [w[x] EXCEPT !.pc = "panicked"]
            ELSE IF w[x].pc \in {"ready", "resolve", "running", "erred"}
              THEN [w[x] EXCEPT !.pc = "aborted"]
            ELSE w[x]]
  /\ UNCHANGED <<wg, errChan, stageErr, stageIdx, runRet>>

\* resolveInputs, one descriptor (lines 110-139 of the resolver)
Resolve(id) ==
  /\ w[id].pc = "resolve"
  /\ w[id].i <= Len(tasks[id].inputSpecs)
  /\ LET r == resolveSpec(tasks[id], w[id].i, data) IN
       IF r.panics THEN Panic(id)
       ELSE IF r.err # NoError
         THEN TaskEnds(id, Wrapf(r.err, <<"input resolution failed">>))
         ELSE /\ w' = [w EXCEPT ![id] = [@ EXCEPT !.i = @ + 1,
                                                  !.args = Append(@, r.value)]]
              /\ UNCHANGED <<wg, errChan, stageErr, stageIdx, runPC, runRet>>
  /\ UNCHANGED <<unitVars, dagVars, kept, regVars, lockVars, cancelled, data, stages>>

\* executeTask, line 217: the callable is invoked, outside any lock
Invoke(id) ==
  /\ w[id].pc = "resolve"
  /\ w[id].i > Len(tasks[id].inputSpecs)
  /\ w' = [w EXCEPT ![id] = [@ EXCEPT !.pc = "running"]]
  /\ UNCHANGED <<unitVars, dagVars, kept, regVars, lockVars, runPC, cancelled, data, stages, stageIdx,
                 wg, errChan, stageErr, runRet>>

\* the types of the values a callable of output type t can return: a value
\* of an interface type holds a value of any type, or nothing
DynamicTypes(t) == IF t = "any" THEN {"int", "string", UntypedNil} ELSE {t}

\* an executeTask that stores whatever came back
storesAlways(out, fn) == TRUE

\* an executeTask that stores the first return value of every call that
\* has not failed
storesFirstReturn(out, fn) == out = NoError

\* executeTask, lines 219-225: the first return value is stored when there
\* are two and the error is nil
storesOutput(out, fn) == out = NoError /\ Len(fn.outs) = 2

\* executeTask, lines 219-232: the callable returns; its value is stored
Returns(id) ==
  /\ w[id].pc = "running"
  /\ \E out \in CallOutcomes(TokenCancelled(w[id].args[1])), dyn \in DynamicTypes(tasks[id].outputType) :
       /\ data' = IF storesOutput(out, tasks[id].fn)
                    THEN set(data, id, Value(id, dyn))
                    ELSE data
       /\ TaskEnds(id, out)
  /\ kept' = KeptAfter(kept, data')
  /\ UNCHANGED <<unitVars, dagVars, regVars, lockVars, cancelled, stages>>

\* an error channel without buffer
errChanUnbuffered(stage) == 0

\* executeStage, line 178: make(chan error, len(stage))
errChanCap(stage) == Len(stage)

\* executeStage, lines 184-186: a worker sends its error and ends
Send(id) ==
  /\ w[id].pc = "erred"
  /\ Len(errChan) < errChanCap(stages[stageIdx])
  /\ errChan' = Append(errChan, Wrapf(w[id].err, <<"task failed", id>>))
  /\ w' = [w EXCEPT ![id] = [@ EXCEPT !.pc = "failed"]]
  /\ wg' = wg - 1
  /\ UNCHANGED <<unitVars, dagVars, kept, regVars, lockVars, runPC, cancelled, data, stages, stageIdx,
                 stageErr, runRet>>

\* a barrier that lets the orchestrator go on one worker early
WaitReturnsOneEarly == wg <= 1

\* a barrier that gives up as soon as an error has been reported
WaitReturnsOnError == wg = 0 \/ Len(errChan) > 0

\* wg.Wait, line 190: may the orchestrator go on
WaitReturns == wg = 0

\* a drain that keeps the first error only
drainFirstError(ch) == IF Len(ch) > 0 THEN Join(<<ch[1]>>) ELSE NoError

\* executeStage, lines 191-204: the channel is closed and drained, and the
\* errors found are joined
drainErrors(ch) == IF Len(ch) > 0 THEN Join(ch) ELSE NoError

\* executeStage, lines 190-204: the barrier, then the errors are drained
Wait ==
  /\ runPC = "wait"
  /\ WaitReturns
  /\ AfterStage(drainErrors(errChan))
  /\ UNCHANGED <<unitVars, dagVars, kept, regVars, lockVars, cancelled, data, stages, w, wg, errChan>>

\* the caller cancels the token while Run is in progress
Cancel ==
  /\ runPC \notin {"idle", "returned", "panicked"}
  /\ ~cancelled
  /\ cancelled' = TRUE
  /\ UNCHANGED <<unitVars, dagVars, kept, regVars, lockVars, runPC, data, stages, stageIdx, w, wg, errChan,
                 stageErr, runRet>>

\* the caller keeps the store that the last Run returned
Keep ==
  /\ runPC = "returned"
  /\ runRet.hasResult
  /\ kept' = Kept(TRUE, TRUE, data)
  /\ UNCHANGED <<unitVars, dagVars, regVars, lockVars, runPC, cancelled, data, stages,
                 stageIdx, w, wg, errChan, stageErr, runRet>>

InitOff ==
  /\ dagDeps = [k \in {} |-> <<>>]
  /\ dagPC = "off"
  /\ dagResult = DagResult(<<>>, NoError, <<>>)

Init == InitOff /\ InitLyra /\ InitUnits

\* the steps of Run and of its workers, for a caller that passes the
\* runtime inputs of inputs and may cancel
RunSteps(inputs) ==
  \/ \E runInputs \in inputs, c \in BOOLEAN : RunCall(runInputs, c)
  \/ GetStages
  \/ NextStage
  \/ \E id \in TaskIds : Lookup(id)
  \/ \E id \in TaskIds : Resolve(id)
  \/ \E id \in TaskIds : Invoke(id)
  \/ \E id \in TaskIds : Returns(id)
  \/ \E id \in TaskIds : Send(id)
  \/ Wait
  \/ Cancel

\* the steps of a client that makes the Do calls of calls and passes the
\* runtime inputs of inputs to Run
NextFor(calls, inputs) ==
  \/ \E call \in calls : Do(call)
  \/ RunSteps(inputs)

Next == NextFor(DoCalls, RunInputs)

Spec == Init /\ [][Next]_vars

\* concurrent registration: every call of RegCalls is made once, each by
\* a thread of its own
NextReg ==
  \/ \E call \in RegCalls : DoLock(call)
  \/ \E call \in RegCalls : DoCheck(call)
  \/ \E call \in RegCalls : DoInsert(call)
  \/ \E call \in RegCalls : DoUnlock(call)

SpecReg == Init /\ [][NextReg]_vars

NextGraph == NextFor(GraphCalls, RunInputs)

\* a client that registers a task under the name of a runtime input and
\* holds on to the stores that Run returns
NextKeep ==
  \/ NextFor(KeepCalls, KeepInputs)
  \/ Keep

SpecKeep == Init /\ [][NextKeep]_vars

\* the Do calls that threads make while another thread calls Run: a task
\* a, a call for a that has no callable, and a task b
RaceCalls ==
  { DoCall("a", Producer, <<>>),
    DoCall("a", NilCallable, <<>>),
    DoCall("b", Consumer, <<UseRun("k")>>) }

\* Run next to concurrent Do calls, each call made once by a thread of its
\* own
NextRace ==
  \/ \E call \in RaceCalls : DoLock(call)
  \/ \E call \in RaceCalls : DoCheck(call)
  \/ \E call \in RaceCalls : DoInsert(call)
  \/ \E call \in RaceCalls : DoUnlock(call)
  \/ RunSteps(RunInputs)

SpecRace == Init /\ [][NextRace]_vars

\* the steps by which a Run in progress and its workers go on
RunProgress ==
  \/ GetStages
  \/ NextStage
  \/ \E id \in TaskIds : Lookup(id)
  \/ \E id \in TaskIds : Resolve(id)
  \/ \E id \in TaskIds : Invoke(id)
  \/ \E id \in TaskIds : Returns(id)
  \/ \E id \in TaskIds : Send(id)
  \/ Wait

\* the same client when the scheduler lets Run and its workers run and
\* every callable returns
SpecKeepFair == SpecKeep /\ WF_vars(RunProgress)

\* a client that only registers: every call of the two clients above, in
\* any order and any number of times
NextDo == \E call \in DoCalls \cup GraphCalls : Do(call)

SpecDo == Init /\ [][NextDo]_vars

NextValues == NextFor(ValueCalls, ValueInputs)

SpecValues == Init /\ [][NextValues]_vars

SpecGraph == Init /\ [][NextGraph]_vars

\* ==================================================== Result, one thread
\* a Result: isNil tells that data is the nil map of the zero value
Result(isNil, content) == [isNil |-> isNil, data |-> content]
ZeroResult == Result(TRUE, EmptyMap)

\* a set that drops the write when the store has no map
setUnlessNil(r, taskID, result) ==
  IF r.isNil THEN r ELSE Result(FALSE, set(r.data, taskID, result))

\* Result.set, lines 53-60: the map is made if needed, then written
ResultSet(r, taskID, result) ==
  LET made == IF r.isNil THEN Result(FALSE, EmptyMap) ELSE r
  IN Result(FALSE, set(made.data, taskID, result))

\* Result.Get, lines 41-50: reading a nil map finds nothing
ResultGet(r, taskID) == Get(IF r.isNil THEN EmptyMap ELSE r.data, taskID)

\* the keys and the values of the calls: an int, a string and a nil
StoreKeys == {"x", "y"}
StoreValues == {Value("t", "int"), Value("t", "string"), Value("t", UntypedNil)}

SetCall(key, value) == [key |-> key, value |-> value]
Got(key, ret) == [key |-> key, value |-> ret.value, err |-> ret.err]
NoGot == [key |-> ""]

\* a zero-value Result or one from NewResult(); hist lists the set calls
\* made so far and got holds what the last Get returned
InitResult ==
  /\ InitOff
  /\ InitLyra
  /\ unit = NoUnit
  /\ \E isNil \in BOOLEAN :
       rs = [pc |-> "seq", store |-> Result(isNil, EmptyMap), hist |-> <<>>, got |-> NoGot]

CallSet(key, value) ==
  /\ rs.pc = "seq"
  /\ Len(rs.hist) < MaxSets
  /\ rs' = [rs EXCEPT !.store = ResultSet(@, key, value),
                      !.hist = Append(@, SetCall(key, value)),
                      !.got = NoGot]
  /\ UNCHANGED <<unit, dagVars, regVars, lockVars, runVars>>

CallGet(key) ==
  /\ rs.pc = "seq"
  /\ rs' = [rs EXCEPT !.got = Got(key, ResultGet(rs.store, key))]
  /\ UNCHANGED <<unit, dagVars, regVars, lockVars, runVars>>

NextResult ==
  \/ \E key \in StoreKeys, value \in StoreValues : CallSet(key, value)
  \/ \E key \in StoreKeys : CallGet(key)

SpecResult == InitResult /\ [][NextResult]_vars

\* ================================================= Result, many threads
\* the threads: writers 1..MaxWriters, then the readers
Writers == 1..MaxWriters
Readers == (MaxWriters + 1)..(MaxWriters + MaxReaders)
TaskKeys == <<"task_0", "task_1", "task_2", "task_3", "task_4">>
WriterKey(t) == TaskKeys[t]
WriterValue(t) == Value(TaskKeys[t], "string")
ExistingValue == Value("existing", "string")

SetOp(key, value) == [op |-> "set", key |-> key, value |-> value]
GetOp(key) == [op |-> "get", key |-> key]

\* a writer sets its own key and reads it back; a reader reads the key set
\* before the threads started and one that nobody sets
Program(t) ==
  IF t \in Writers THEN <<SetOp(WriterKey(t), WriterValue(t)), GetOp(WriterKey(t))>>
  ELSE <<GetOp("existing"), GetOp("non-existing")>>

Thread(pc, i, seen, got) == [pc |-> pc, i |-> i, seen |-> seen, got |-> got]

\* NewResult(), the set of "existing", then the threads start
InitThreads ==
  /\ InitOff
  /\ InitLyra
  /\ unit = NoUnit
  /\ rs = [pc |-> "con",
           store |-> ResultSet(Result(FALSE, NewResult), "existing", ExistingValue),
           mu |-> FreeMutex,
           th |-> [t \in Writers \cup Readers |-> Thread("call", 1, EmptyMap, <<>>)]]

CurrentOp(t) == Program(t)[rs.th[t].i]

\* a set that takes the lock as a reader
setEntersAsReader(m) == IF CanRLock(m) THEN {RLock(m)} ELSE {}

\* set, line 54: r.mu.Lock() goes on when nobody holds the lock; the lock
\* as it is then, if the call can go on
setEnters(m) == IF CanLock(m) THEN {Lock(m)} ELSE {}

\* line 54 of set, line 42 of Get: the lock is taken
Enter(t) ==
  /\ rs.pc = "con"
  /\ rs.th[t].pc = "call"
  /\ IF CurrentOp(t).op = "set"
       THEN \E m \in setEnters(rs.mu) : rs' = [rs EXCEPT !.mu = m, !.th[t].pc = "locked"]
       ELSE CanRLock(rs.mu) /\ rs' = [rs EXCEPT !.mu = RLock(@), !.th[t].pc = "locked"]
  /\ UNCHANGED <<unit, dagVars, regVars, lockVars, runVars>>

\* lines 56-59 of set: the map is made if needed and the map write reads
\* the map; line 45 of Get: the lookup
Access(t) ==
  /\ rs.pc = "con"
  /\ rs.th[t].pc = "locked"
  /\ IF CurrentOp(t).op = "set"
       THEN rs' = [rs EXCEPT !.store = IF @.isNil THEN Result(FALSE, EmptyMap) ELSE @,
                            !.th[t].seen = IF rs.store.isNil THEN EmptyMap ELSE rs.store.data,
                            !.th[t].pc = "writing"]
       ELSE rs' = [rs EXCEPT !.th[t].got =
                              Append(@, Got(CurrentOp(t).key, ResultGet(rs.store, CurrentOp(t).key))),
                            !.th[t].pc = "leaving"]
  /\ UNCHANGED <<unit, dagVars, regVars, lockVars, runVars>>

\* line 59 of set: the map write puts back what it read with the new entry
Write(t) ==
  /\ rs.pc = "con"
  /\ rs.th[t].pc = "writing"
  /\ rs' = [rs EXCEPT !.store = Result(FALSE, set(rs.th[t].seen, CurrentOp(t).key,
                                                  CurrentOp(t).value)),
                      !.th[t].seen = EmptyMap,
                      !.th[t].pc = "leaving"]
  /\ UNCHANGED <<unit, dagVars, regVars, lockVars, runVars>>

\* the deferred Unlock / RUnlock; the thread goes on to its next call
Leave(t) ==
  /\ rs.pc = "con"
  /\ rs.th[t].pc = "leaving"
  /\ rs' = [rs EXCEPT !.mu = IF CurrentOp(t).op = "set" THEN Unlock(@) ELSE RUnlock(@),
                      !.th[t].i = @ + 1,
                      !.th[t].pc = IF rs.th[t].i = Len(Program(t)) THEN "done" ELSE "call"]
  /\ UNCHANGED <<unit, dagVars, regVars, lockVars, runVars>>

NextThreads ==
  \/ \E t \in Writers \cup Readers : Enter(t)
  \/ \E t \in Writers \cup Readers : Access(t)
  \/ \E t \in Writers \cup Readers : Write(t)
  \/ \E t \in Writers \cup Readers : Leave(t)

SpecThreads == InitThreads /\ [][NextThreads]_vars

\* ================================================ functions on their own
\* the parameter lists and the return lists of the functions under analysis
TypeLists(n) == UNION {[1..k -> SigTypes] : k \in 0..n}

\* the value handed to the analyzer: nil, a value that is no function, or
\* a function over the types of the model; only a function with a parameter
\* can be variadic
InitSig ==
  /\ InitOff
  /\ InitLyra
  /\ rs = NoResult
  /\ \/ unit = [pc |-> "fn", fn |-> NilCallable]
     \/ unit = [pc |-> "fn", fn |-> NotAFunction]
     \/ \E fn \in {NilFunc(<<"context">>, <<"error">>), NilFunc(<<>>, <<"error">>),
                    NilFunc(<<"int">>, <<>>)} :
          unit = [pc |-> "fn", fn |-> fn]
     \/ \E ins \in TypeLists(MaxParams), outs \in TypeLists(MaxReturns), v \in BOOLEAN :
          /\ v => Len(ins) >= 1
          /\ unit = [pc |-> "fn", fn |-> [Callable(ins, outs) EXCEPT !.variadic = v]]

Analyze ==
  /\ unit.pc = "fn"
  /\ unit' = [pc |-> "analyzed", fn |-> unit.fn, info |-> analyzeFunctionSignature(unit.fn)]
  /\ UNCHANGED <<rs, dagVars, regVars, lockVars, runVars>>

NextSig == Analyze

SpecSig == InitSig /\ [][NextSig]_vars

\* ---------------------------------------------------- the resolver alone
\* reflect.ValueOf(ctx)
ValueOfContext == [writer |-> "caller", type |-> "context"]

\* the values the task a may have stored
StartValues ==
  { GoValue("a", UntypedNil, {}), GoValue("a", "int", {}), GoValue("a", "string", {}),
    GoValue("a", "User", {}), GoValue("a", "User", {<<"Home">>}),
    GoValue("a", "*User", {<<>>}), GoValue("a", "*User", {}),
    GoValue("a", "*User", {<<"*", "Home">>}),
    GoValue("a", "**User", {}), GoValue("a", "**User", {<<"*">>}),
    GoValue("a", "*string", {<<>>}) }

\* the names a client may pass as a field path: fields of User and Address,
\* a name that is no field, and the empty string
PathNames == {"Name", "secret", "Address", "Home", "City", "Zip", ""}
FieldPaths(n) == UNION {[1..k -> PathNames] : k \in 0..n}

\* the stores: a holds a start value or is missing; k holds a nil *string,
\* an int, or is missing
ResolverStores ==
  LET forA == {EmptyMap} \cup {[x \in {"a"} |-> v] : v \in StartValues}
      forK == {EmptyMap} \cup {[x \in {"k"} |-> v] :
                                 v \in {GoValue("run", "*string", {<<>>}),
                                        GoValue("run", "int", {})}}
  IN {[x \in DOMAIN m \cup DOMAIN n |-> IF x \in DOMAIN m THEN m[x] ELSE n[x]] :
        m \in forA, n \in forK}

\* a task whose first parameter is fed by a field of the task a, with or
\* without a second parameter, a *string, fed by the runtime input k
InitResolver ==
  /\ InitOff
  /\ InitLyra
  /\ rs = NoResult
  /\ \E fieldPath \in FieldPaths(MaxPath), type \in {"string", "*Address", "*string"},
        second \in BOOLEAN, store \in ResolverStores :
       /\ ~second => "k" \notin DOMAIN store
       /\ unit = [pc |-> "inputs", store |-> store,
                  task |-> NewTask("t",
                             Callable(<<"context", type>>
                                        \o (IF second THEN <<"*string">> ELSE <<>>),
                                      <<"int", "error">>),
                             <<UseField("a", fieldPath)>>
                               \o (IF second THEN <<UseRun("k")>> ELSE <<>>)).task]

\* executeTask, lines 212-217: the inputs are resolved, and the callable is
\* invoked when that gave no error
CallExecuteTask ==
  /\ unit.pc = "inputs"
  /\ LET r == resolveInputs(ValueOfContext, unit.task, unit.store) IN
       unit' = [pc |-> "executed", task |-> unit.task, store |-> unit.store,
                resolved |-> r,
                invoked |-> (r.err = NoError /\ ~r.panics),
                err |-> IF r.err # NoError
                          THEN Wrapf(r.err, <<"input resolution failed">>)
                          ELSE NoError]
  /\ UNCHANGED <<rs, dagVars, regVars, lockVars, runVars>>

\* extractNestedField on the value of a and the path of the first descriptor
CallExtractNestedField ==
  /\ unit.pc = "inputs"
  /\ "a" \in DOMAIN unit.store
  /\ unit.task.inputSpecs[1].Field # <<>>
  /\ unit' = [pc |-> "extracted", value |-> unit.store["a"],
              path |-> unit.task.inputSpecs[1].Field,
              out |-> extractNestedField(unit.store["a"], unit.task.inputSpecs[1].Field)]
  /\ UNCHANGED <<rs, dagVars, regVars, lockVars, runVars>>

NextResolver == CallExecuteTask \/ CallExtractNestedField

SpecResolver == InitResolver /\ [][NextResolver]_vars

\* the descriptor lists of a task: Use and UseRun of the sources a and b
SpecLists(n) == UNION {[1..k -> {Use("a"), UseRun("a"), Use("b"), UseRun("b")}] : k \in 0..n}

\* a function that takes n ints after the token
TakesInts(n) == Callable([i \in 1..(n + 1) |-> IF i = 1 THEN "context" ELSE "int"], <<"error">>)

\* a registry that holds the task a with a drawn descriptor list
InitDeps ==
  /\ InitOff
  /\ InitLyra
  /\ rs = NoResult
  /\ \E specs \in SpecLists(MaxSpecs) :
       unit = [pc |-> "task",
               registry |-> [id \in {"a"} |-> NewTask("a", TakesInts(Len(specs)), specs).task]]

\* GetDependencies of the task, and the graph that getStages builds from
\* the registry (lines 150-153)
CallGetDependencies ==
  /\ unit.pc = "task"
  /\ unit' = [pc |-> "deps", registry |-> unit.registry,
              deps |-> dependencySlice(unit.registry["a"]),
              graph |-> taskGraphOf(unit.registry)]
  /\ UNCHANGED <<rs, dagVars, regVars, lockVars, runVars>>

NextDeps == CallGetDependencies

SpecDeps == InitDeps /\ [][NextDeps]_vars

\* ----------------------------------------------------- the factory alone
\* the ids, callables and descriptor lists handed to NewTask
FactoryIds == WhitespaceIds \cup PaddedIds \cup {"a"}
FactoryCallables ==
  { NilCallable, NotAFunction, NoContext, NilFunc(<<"context">>, <<"error">>),
    Callable(<<"context">>, <<"int">>), [Callable(<<"context", "int">>, <<"error">>)
                                          EXCEPT !.variadic = TRUE] }
    \cup {TakesInts(n) : n \in 0..MaxParams}

InitFactory ==
  /\ InitOff
  /\ InitLyra
  /\ rs = NoResult
  /\ \E id \in FactoryIds, fn \in FactoryCallables, specs \in SpecLists(MaxSpecs) :
       unit = [pc |-> "call", id |-> id, fn |-> fn, specs |-> specs]

CallNewTask ==
  /\ unit.pc = "call"
  /\ unit' = [pc |-> "made", id |-> unit.id, fn |-> unit.fn, specs |-> unit.specs,
              made |-> NewTask(unit.id, unit.fn, unit.specs)]
  /\ UNCHANGED <<rs, dagVars, regVars, lockVars, runVars>>

NextFactory == CallNewTask

SpecFactory == InitFactory /\ [][NextFactory]_vars

\* -------------------------------------------------- ids with white space
\* the Do calls of a client that writes the id a with and without
\* surrounding white space, and feeds b from it
PaddedCalls ==
  {DoCall(id, Producer, <<>>) : id \in PaddedIds \cup WhitespaceIds \cup {"a"}}
    \cup {DoCall("b", Consumer, <<Use(src)>>) : src \in {"a", "a "}}

NextPadded == \E call \in PaddedCalls : Do(call)

SpecPadded == Init /\ [][NextPadded]_vars

\* ====================================================== properties: the DAG
AllPrereqsAreNodes(deps) ==
  \A n \in DOMAIN deps : \A i \in 1..Len(deps[n]) : deps[n][i] \in DOMAIN deps

\* a directed cycle exists iff some non-empty set of nodes has no node whose
\* prerequisites all lie outside the set
HasCycle(deps) ==
  \E S \in SUBSET (DOMAIN deps) :
    /\ S # {}
    /\ \A n \in S : \E i \in 1..Len(deps[n]) : deps[n][i] \in S

ValidDAG(deps) == AllPrereqsAreNodes(deps) /\ ~HasCycle(deps)

\* the indices of the levels that contain n
LevelsOf(levels, n) ==
  {i \in 1..Len(levels) : \E j \in 1..Len(levels[i]) : levels[i][j] = n}

\* how often n occurs in the concatenation of the levels
Occurrences(levels, n) ==
  Cardinality({p \in UNION {{<<i, j>> : j \in 1..Len(levels[i])} : i \in 1..Len(levels)} :
                 levels[p[1]][p[2]] = n})

DagDone == dagPC = "done"

\* C1: for a valid DAG, under every iteration order, the call succeeds and
\* every prerequisite u of v lies in a strictly earlier level than v.
C1_LevelCorrectness ==
  (DagDone /\ ValidDAG(dagDeps)) =>
    /\ dagResult.err = NoError
    /\ \A v \in DOMAIN dagDeps : \A i \in 1..Len(dagDeps[v]) :
         \A lu \in LevelsOf(dagResult.levels, dagDeps[v][i]) :
           \A lv \in LevelsOf(dagResult.levels, v) : lu < lv
    /\ \A v \in DOMAIN dagDeps : LevelsOf(dagResult.levels, v) # {}

\* C2: for a valid DAG, under every iteration order, the call succeeds and
\* the concatenated levels hold every node exactly once and nothing else.
C2_LevelCompleteness ==
  (DagDone /\ ValidDAG(dagDeps)) =>
    /\ dagResult.err = NoError
    /\ \A n \in DOMAIN dagDeps : Occurrences(dagResult.levels, n) = 1
    /\ \A i \in 1..Len(dagResult.levels) : \A j \in 1..Len(dagResult.levels[i]) :
         dagResult.levels[i][j] \in DOMAIN dagDeps

\* C3: a map whose prerequisites are all nodes and that has a directed cycle
\* is rejected with CYCLIC_DEPENDENCY and no levels.
C3_CycleRejected ==
  (DagDone /\ AllPrereqsAreNodes(dagDeps) /\ HasCycle(dagDeps)) =>
    /\ dagResult.err.kind = "CYCLIC_DEPENDENCY"
    /\ dagResult.levels = <<>>

\* C4: a non-empty map that lists a prerequisite which is not a key fails
\* with MISSING_DEPENDENCY and no levels, also when it has a cycle.
C4_MissingDependency ==
  (DagDone /\ ~AllPrereqsAreNodes(dagDeps)) =>
    /\ dagResult.err.kind = "MISSING_DEPENDENCY"
    /\ dagResult.levels = <<>>

C4_Witness ==
  /\ DagDone
  /\ ~AllPrereqsAreNodes(dagDeps)
  /\ HasCycle(dagDeps)
  /\ dagResult.err.kind = "MISSING_DEPENDENCY"


\* how often n occurs in the sequence q
Count(q, n) == Cardinality({i \in 1..Len(q) : q[i] = n})

\* C27: on success for a valid DAG every node lies in exactly one level; a
\* node with no prerequisites lies in the first level, and any other node in
\* the level just after the last level that holds one of its prerequisites,
\* so the partition into levels does not depend on the iteration orders.
C27_LevelsMaximal ==
  (DagDone /\ ValidDAG(dagDeps) /\ dagResult.err = NoError) =>
    \A v \in DOMAIN dagDeps :
      \E lv \in 1..Len(dagResult.levels) :
        /\ LevelsOf(dagResult.levels, v) = {lv}
        /\ dagDeps[v] = <<>> => lv = 1
        /\ dagDeps[v] # <<>> =>
             /\ \A i \in 1..Len(dagDeps[v]) :
                  \A lu \in LevelsOf(dagResult.levels, dagDeps[v][i]) : lu < lv
             /\ \E i \in 1..Len(dagDeps[v]) :
                  lv - 1 \in LevelsOf(dagResult.levels, dagDeps[v][i])

\* C28: in every iteration of the Kahn loop the nodes whose dependents are
\* decremented are the nodes of the level just emitted, each once; no
\* in-degree counter is negative; no node is emitted in two levels.
C28_FrontierInvariant ==
  DagDone =>
    /\ \A t \in 1..Len(dagResult.trace) :
         /\ \A n \in DOMAIN dagDeps :
              Count(dagResult.trace[t].visited, n) = Count(dagResult.trace[t].level, n)
         /\ \A n \in DOMAIN dagDeps : dagResult.trace[t].inDegree[n] >= 0
    /\ \A n \in DOMAIN dagDeps :
         Cardinality({t \in 1..Len(dagResult.trace) :
                        Count(dagResult.trace[t].level, n) > 0}) <= 1

\* ============================================== properties: the orchestrator
StageSet(i) == {stages[i][j] : j \in 1..Len(stages[i])}
Terminated(id) == w[id].pc \in {"done", "failed"}
Started(id) == w[id].pc # "idle"
HasOutput(id) == Len(tasks[id].fn.outs) = 2
TaskResultSources(id) ==
  {tasks[id].inputSpecs[i].Source :
     i \in {i \in 1..Len(tasks[id].inputSpecs) :
              tasks[id].inputSpecs[i].Type = TaskResultInputSpec}}

\* C5: no task of level i+1 has its inputs resolved or is invoked before
\* every task of level i has terminated.
C5_LevelBarrier ==
  \A i \in 1..(Len(stages) - 1) :
    \A u \in StageSet(i) : \A v \in StageSet(i + 1) :
      Started(v) => Terminated(u)

C5_Witness ==
  \E i \in 1..(Len(stages) - 1) :
    /\ Cardinality(StageSet(i)) >= 2
    /\ \A u \in StageSet(i) : Terminated(u)
    /\ \E v \in StageSet(i + 1) : w[v].pc = "running"

C7_FirstFailingLevelEndsRun ==
  \A i \in 1..Len(stages) : \A u \in StageSet(i) :
    w[u].err # NoError =>
      /\ \A j \in (i + 1)..Len(stages) : \A v \in StageSet(j) : ~Started(v)
      /\ runPC = "returned" => (~runRet.hasResult /\ runRet.err # NoError)

C7_Witness ==
  /\ runPC = "returned"
  /\ ~runRet.hasResult
  /\ \E i \in 1..(Len(stages) - 1) :
       /\ \E u \in StageSet(i) : w[u].err.kind = "TASK_NOT_FOUND"
       /\ \E u \in StageSet(i) : w[u].err.kind = "CONTEXT_CANCELED"
       /\ \A v \in StageSet(i + 1) : ~Started(v)

\* the tasks of the level executeStage last ran
CurrentStage == IF stageIdx \in 1..Len(stages) THEN StageSet(stageIdx) ELSE {}
JoinedFor(id) ==
  {k \in 1..Len(stageErr.errs) :
     stageErr.errs[k] = Wrapf(w[id].err, <<"task failed", id>>)}

\* C8: the error of a multi-task level is the join of the errors of exactly
\* its failing tasks, one per failing task, each wrapped with the task's id.
C8_ErrorAggregation ==
  /\ (runPC = "returned" /\ Cardinality(CurrentStage) > 1
        /\ \E id \in CurrentStage : w[id].err # NoError)
       => stageErr.kind = "JOIN"
  /\ stageErr.kind = "JOIN" =>
       /\ \A id \in CurrentStage :
            IF w[id].err # NoError
              THEN Cardinality(JoinedFor(id)) = 1
              ELSE \A k \in 1..Len(stageErr.errs) :
                     stageErr.errs[k].ctx[1] # <<"task failed", id>>
       /\ Len(stageErr.errs) =
            Cardinality({id \in CurrentStage : w[id].err # NoError})

C8_Witness ==
  /\ stageErr.kind = "JOIN"
  /\ Cardinality(CurrentStage) = 3
  /\ Len(stageErr.errs) = 2
  /\ \E id \in CurrentStage : w[id].pc = "done"

\* C9: Run never returns while a worker it started is still running; every
\* task of the level that failed has run to its end, and a sibling that
\* succeeded has written its output.
C9_NoEarlyReturn ==
  runPC = "returned" =>
    /\ \A id \in TaskIds : w[id].pc \in {"idle", "done", "failed"}
    /\ \A id \in CurrentStage : Terminated(id)
    /\ \A id \in DOMAIN tasks :
         (w[id].pc = "done" /\ HasOutput(id)) =>
           (id \in DOMAIN data /\ data[id].writer = id)

C9_Witness ==
  /\ runPC = "returned"
  /\ runRet.err # NoError
  /\ cancelled
  /\ Cardinality(CurrentStage) > 1
  /\ \E id \in CurrentStage : w[id].err.kind = "CONTEXT_CANCELED"
  /\ \E id \in CurrentStage : w[id].pc = "done" /\ id \in DOMAIN data

\* C10: once a Do call has failed, the sticky error stays the error of that
\* first failing call; no later Do call replaces it.
C10_StickyFirstError == [][error # NoError => error' = error]_vars

\* ================================================ properties: registration
ValidCall(call) == NewTask(call.id, call.fn, call.inputs).err = NoError
ErrorNames(err, id) == \E i \in 1..Len(err.ctx) : err.ctx[i][Len(err.ctx[i])] = id

\* C11: a Do call with a valid task whose id is already registered sets the
\* sticky error to DUPLICATE_TASK for that id and leaves the registry as it
\* was, so the id stays bound to the task registered first, whichever
\* function comes second.
C11_DuplicateKeepsFirst ==
  [][\A call \in GraphCalls :
       (ValidCall(call) /\ call.id \in DOMAIN tasks /\ Do(call)) =>
         /\ error'.kind = "DUPLICATE_TASK"
         /\ ErrorNames(error', call.id)
         /\ tasks' = tasks]_vars

C11_Witness ==
  /\ error.kind = "DUPLICATE_TASK"
  /\ ErrorNames(error, "c")
  /\ "c" \in DOMAIN tasks
  /\ tasks["c"].fn = Stringer

\* =============================================== properties: graph errors
\* the registry has a TASK_RESULT source that is not a registered id, or a
\* cycle among its TASK_RESULT dependencies
GraphError == ~AllPrereqsAreNodes(taskGraph) \/ HasCycle(taskGraph)

\* C13: when getStages reads a registry with a cycle or with a TASK_RESULT
\* source that is not a registered id, Run returns (null, error) and no
\* callable has been invoked.
C13_NoPartialExecution ==
  [][(runPC = "getStages" /\ runPC' # "getStages" /\ GraphError) =>
       /\ runPC' = "returned"
       /\ ~runRet'.hasResult
       /\ runRet'.err # NoError
       /\ \A id \in TaskIds : w'[id].pc = "idle"]_vars

\* ============================================ properties: input resolution
\* err is an error of the given kind, or a join that holds one
Mentions(err, kind) ==
  err.kind = kind \/ \E k \in 1..Len(err.errs) : err.errs[k].kind = kind

\* the worker of id is about to resolve its descriptor at position w[id].i
Resolving(id) ==
  /\ id \in DOMAIN tasks
  /\ w[id].pc = "resolve"
  /\ w[id].i <= Len(tasks[id].inputSpecs)
CurrentSource(id) == tasks[id].inputSpecs[w[id].i].Source

\* the step is one of the worker of id (a panic elsewhere aborts it)
WorkerStep(id) == w'[id] # w[id] /\ w'[id].pc # "aborted"

\* what holds of a task whose input resolution failed with kind
ResolutionFailedWith(id, kind) ==
  /\ w[id].pc \in {"erred", "failed", "aborted"}
  /\ w[id].args = <<>>
  /\ id \notin DOMAIN data
  /\ runPC = "returned" => (~runRet.hasResult /\ Mentions(runRet.err, kind))

\* C14: when the value found for the descriptor at position i is of a type
\* that is not assignable to parameter i+1, the task fails with
\* INVALID_PARAM_TYPE without being invoked, writes nothing to the result
\* store, and Run returns that error.
C14_TypeEnforcement ==
  /\ [][\A id \in TaskIds :
          (/\ Resolving(id)
           /\ CurrentSource(id) \in DOMAIN data
           /\ data[CurrentSource(id)].type # UntypedNil
           /\ data[CurrentSource(id)].type # tasks[id].inputTypes[w[id].i + 1]
           /\ tasks[id].inputTypes[w[id].i + 1] # "any"
           /\ WorkerStep(id)) =>
            /\ w'[id].err.kind = "INVALID_PARAM_TYPE"
            /\ w'[id].pc \in {"erred", "failed"}]_vars
  /\ [](\A id \in TaskIds :
          w[id].err.kind = "INVALID_PARAM_TYPE" =>
            ResolutionFailedWith(id, "INVALID_PARAM_TYPE"))

C14_Witness ==
  /\ runPC = "returned"
  /\ w["b"].err.kind = "INVALID_PARAM_TYPE"
  /\ w["b"].err.ctx[2] = <<"parameter", 3>>
  /\ "a" \in DOMAIN data
  /\ data["a"].type = "string"

\* C15: when the source key of a descriptor, RUNTIME or TASK_RESULT, is not
\* in the result store, the task fails with TASK_NOT_FOUND without an
\* argument vector and without being invoked, and Run returns the error.
C15_MissingInput ==
  /\ [][\A id \in TaskIds :
          (Resolving(id) /\ CurrentSource(id) \notin DOMAIN data /\ WorkerStep(id)) =>
            /\ w'[id].err.kind = "TASK_NOT_FOUND"
            /\ w'[id].args = <<>>
            /\ w'[id].pc \in {"erred", "failed"}]_vars
  /\ [](\A id \in TaskIds :
          w[id].err.kind = "TASK_NOT_FOUND" => ResolutionFailedWith(id, "TASK_NOT_FOUND"))

C15_Witness ==
  /\ runPC = "returned"
  /\ w["b"].err.kind = "TASK_NOT_FOUND"
  /\ w["e"].err.kind = "TASK_NOT_FOUND"
  /\ Len(runRet.err.errs) = 2

\* C19: Run never panics, whatever values the result store holds.
C19_NeverPanics == runPC # "panicked"

\* ===================================================== properties: Run
NothingRan == \A id \in TaskIds : w[id].pc = "idle"

\* C12: a Run called while the orchestrator holds a sticky registration
\* error returns (null, that error wrapped as a build error) at once: no
\* graph is built and no callable is invoked, whatever tasks are registered.
C12_RunAfterFailedRegistration ==
  /\ [][\A runInputs \in RunInputs, c \in BOOLEAN :
          (error # NoError /\ RunCall(runInputs, c)) =>
            /\ runPC' = "returned"
            /\ runRet' = RunReturn(FALSE, Wrapf(error, <<"build error">>))
            /\ stages' = <<>>
            /\ \A id \in TaskIds : w'[id].pc = "idle"]_vars
  /\ []((runPC = "returned" /\ Len(runRet.err.ctx) > 0
           /\ runRet.err.ctx[1] = <<"build error">>) =>
          (~runRet.hasResult /\ NothingRan /\ stages = <<>> /\ data = EmptyMap))

C12_Witness ==
  /\ runPC = "returned"
  /\ runRet = RunReturn(FALSE, Wrapf(error, <<"build error">>))
  /\ error # NoError
  /\ {"a", "b", "c"} \subseteq DOMAIN tasks
  /\ NothingRan

\* C16: Run does not look at the cancellation token.  Called with a token
\* that is already cancelled it goes on to build the graph; every task that
\* is started gets the token of the caller as argument 0; when Run has
\* returned after building the graph every task of the first level was
\* started; Run fails only if a task failed, and succeeds when none did.
C16_CooperativeCancellation ==
  /\ [][\A runInputs \in RunInputs :
          (error = NoError /\ RunCall(runInputs, TRUE)) =>
            (runPC' = "getStages" /\ cancelled')]_vars
  /\ [](\A id \in TaskIds :
          w[id].pc \in {"resolve", "running"} => w[id].args[1] = RunContext)
  /\ []((runPC = "returned" /\ stages # <<>>) =>
          /\ \A id \in StageSet(1) : Started(id)
          /\ runRet.err # NoError <=> \E id \in TaskIds : w[id].err # NoError
          /\ runRet.hasResult <=> runRet.err = NoError)

C16_Witness ==
  /\ cancelled
  /\ runPC = "returned"
  /\ runRet = RunReturn(TRUE, NoError)
  /\ Len(stages) = 3
  /\ \A id \in DOMAIN tasks : w[id].pc = "done"

\* some context of err, or of an error joined in it, holds id
InContext(ctx, id) ==
  \E i \in 1..Len(ctx) : \E j \in 1..Len(ctx[i]) : ctx[i][j] = id
Identifies(err, id) ==
  InContext(err.ctx, id) \/ \E k \in 1..Len(err.errs) : InContext(err.errs[k].ctx, id)

\* C20: the error Run returns when tasks of a level failed names the id of
\* each failing task, whether the task ran inline or as a worker.
C20_TaskIdOnRunErrors ==
  (runPC = "returned" /\ runRet.err # NoError) =>
    \A id \in CurrentStage : w[id].err # NoError => Identifies(runRet.err, id)

\* the same for the levels of several tasks only
WorkersNamedOnRunErrors ==
  (runPC = "returned" /\ runRet.err # NoError /\ Cardinality(CurrentStage) > 1) =>
    \A id \in CurrentStage : w[id].err # NoError => Identifies(runRet.err, id)

\* =================================================== properties: the lock
InDo(call) == doers[call].pc \in {"locked", "insert", "unlock"}
Registered(call) ==
  /\ call.id \in DOMAIN tasks
  /\ tasks[call.id] = NewTask(call.id, call.fn, call.inputs).task

\* C17: of the concurrent Do calls with valid tasks and distinct ids at most
\* one is between Lock and Unlock; a call that has written its task finds it
\* in the registry ever after, so that when all have returned all tasks are
\* registered; the sticky error stays empty.
C17_ConcurrentRegistration ==
  /\ \A c1, c2 \in RegCalls : (InDo(c1) /\ InDo(c2)) => c1 = c2
  /\ \A call \in RegCalls : doers[call].pc \in {"unlock", "done"} => Registered(call)
  /\ error = NoError
  /\ mu.writer <=> \E call \in RegCalls : InDo(call)

C17_Witness ==
  /\ \A call \in RegCalls : doers[call].pc = "done"
  /\ DOMAIN tasks = {call.id : call \in RegCalls}
  /\ Cardinality(RegCalls) = 5
  /\ mu = FreeMutex

\* some step of the Run in progress can be taken
RunCanStep ==
  \/ runPC = "getStages" /\ CanRLock(mu)
  \/ runPC = "process"
  \/ /\ runPC \in {"inline", "wait"}
     /\ \/ \E id \in TaskIds : w[id].pc = "ready" /\ CanRLock(mu)
        \/ \E id \in TaskIds : w[id].pc \in {"resolve", "running"}
        \/ \E id \in TaskIds : w[id].pc = "erred" /\ Len(errChan) < Len(stages[stageIdx])
        \/ runPC = "wait" /\ wg = 0

\* C18: while the inputs of a task are resolved and while its callable is
\* executing, Run holds neither the read nor the write lock of the registry,
\* so a Do call can take the lock at once; and a Run in progress can always
\* take a step, whatever Do calls were made meanwhile.
C18_CallableOutsideLock ==
  /\ \A id \in TaskIds :
       w[id].pc \in {"resolve", "running"} => (mu = FreeMutex /\ CanLock(mu))
  /\ runPC \in {"getStages", "process", "inline", "wait"} => RunCanStep

C18_Witness ==
  /\ \E id \in TaskIds : w[id].pc = "running"
  /\ \E id \in DOMAIN tasks : \A i \in 1..Len(stages) : id \notin StageSet(i)
  /\ error # NoError

\* ============================================= properties: the result keys
RunInProgress == runPC \notin {"idle", "returned"}
Written(k) == k \in DOMAIN data' /\ (k \notin DOMAIN data \/ data'[k] # data[k])

\* C21: within one run a task is started, and its callable invoked, at most
\* once; a key of the store is written only by the task of that id, when
\* its callable has returned no error, and only if it was not yet there; a
\* task that failed has written nothing.
C21_WriteOnceKeys ==
  /\ [][\A id \in TaskIds :
          /\ (w'[id].pc = "ready" /\ w[id].pc # "ready") => w[id].pc = "idle"
          /\ (w'[id].pc = "running" /\ w[id].pc # "running") => w[id].pc = "resolve"]_vars
  /\ [][RunInProgress =>
          /\ DOMAIN data \subseteq DOMAIN data'
          /\ \A k \in DOMAIN data' :
               Written(k) =>
                 /\ k \notin DOMAIN data
                 /\ k \in TaskIds
                 /\ w[k].pc = "running"
                 /\ w'[k].pc = "done"
                 /\ w'[k].err = NoError
                 /\ data'[k].writer = k]_vars
  /\ [](\A id \in TaskIds : w[id].err # NoError => id \notin DOMAIN data)

C21_Witness ==
  /\ runPC = "returned"
  /\ Len(stages) = 3
  /\ w["e"].err # NoError
  /\ {"a", "b", "c", "d"} \subseteq DOMAIN data
  /\ \A id \in {"a", "b", "c", "d"} : data[id].writer = id

\* ============================================ properties: failed registration
\* the reasons for which a Do call fails: the task cannot be made (empty or
\* whitespace id, invalid callable, descriptor count mismatch) or the id is
\* taken
DoFails(call) == ~ValidCall(call) \/ call.id \in DOMAIN tasks

\* C30: a Do call that fails leaves the registry as it was, the same ids
\* bound to the same tasks, and reports an error; a valid call for a new id
\* registers its task and changes no other binding, also when an earlier
\* call has failed.
C30_FailedDoKeepsRegistry ==
  [][\A call \in DoCalls \cup GraphCalls :
       Do(call) =>
         IF DoFails(call)
           THEN tasks' = tasks /\ error' # NoError /\ ErrorNames(error', call.id)
           ELSE /\ DOMAIN tasks' = DOMAIN tasks \cup {call.id}
                /\ tasks'[call.id] = NewTask(call.id, call.fn, call.inputs).task
                /\ \A id \in DOMAIN tasks : tasks'[id] = tasks[id]]_vars

C30_Witness ==
  /\ error.kind = "DUPLICATE_TASK"
  /\ ErrorNames(error, "c")
  /\ DOMAIN tasks = {"a", "b", "c", "d", "e"}
  /\ tasks["c"].fn = Stringer
  /\ tasks["e"].fn = Consumer

\* =============================================== properties: the run's store
\* C24: a Run that finds no sticky error starts with a store that holds the
\* runtime inputs and nothing else; with an empty registry the store is not
\* written again and Run returns it with no error; the content of a store
\* that the caller holds from an earlier Run changes only when the caller
\* takes the store of another Run in its place.
C24_FreshSeededStore ==
  /\ [][\A runInputs \in KeepInputs, c \in BOOLEAN :
          (RunCall(runInputs, c) /\ error = NoError) =>
            /\ data' = runInputs
            /\ runPC' = "getStages"]_vars
  /\ [][(RunInProgress /\ DOMAIN tasks' = {}) =>
          /\ data' = data
          /\ runPC' = "returned" => (runRet'.hasResult /\ runRet'.err = NoError)]_vars
  /\ [][kept'.data # kept.data =>
          /\ runPC = "returned" /\ runPC' = "returned"
          /\ runRet.hasResult
          /\ kept'.data = data]_vars

C24_Witness ==
  /\ kept.held
  /\ kept.data = [k \in {"k"} |-> Value("run", "string")]
  /\ runPC = "returned"
  /\ runRet.hasResult
  /\ "k" \in DOMAIN data
  /\ data["k"] = Value("k", "int")

\* C25: registering a task under the name of a runtime input is no error,
\* a Run whose inputs hold that name goes on to build the stages, and once
\* the task has returned a value with no error the store maps the name to
\* the value of the task.
C25_KeyCollision ==
  /\ [][\A call \in KeepCalls :
          (Do(call) /\ call.id \notin DOMAIN tasks) =>
            (call.id \in DOMAIN tasks' /\ error' = error)]_vars
  /\ [][\A runInputs \in KeepInputs, c \in BOOLEAN :
          (RunCall(runInputs, c) /\ error = NoError) => runPC' = "getStages"]_vars
  /\ [](\A id \in DOMAIN tasks :
          (RunInProgress /\ w[id].pc = "done") =>
            (id \in DOMAIN data /\ data[id] = Value(id, tasks[id].outputType)))

C25_Witness ==
  /\ DOMAIN tasks = {"k", "b", "c"}
  /\ w["b"].err.kind = "INVALID_PARAM_TYPE"
  /\ w["k"].pc = "done"
  /\ "k" \in DOMAIN data
  /\ data["k"] = Value("k", "int")

\* ================================================== properties: the Result
\* the set calls on key so far, as indices of the history
SetsOn(key) == {i \in 1..Len(rs.hist) : rs.hist[i].key = key}
LastSetOn(key) == rs.hist[CHOOSE i \in SetsOn(key) : \A j \in SetsOn(key) : j <= i]

AllThreadsDone == \A t \in Writers \cup Readers : rs.th[t].pc = "done"

\* C23: with writers that set distinct keys next to readers, in every
\* interleaving: when all threads are done the store holds the key set
\* before and every writer's key with its value and nothing else; every Get
\* of the key set before returns its value; the Get a writer makes after its
\* set returns the value it wrote.
C23_ConcurrentStore ==
  rs.pc = "con" =>
    /\ AllThreadsDone =>
         /\ ~rs.store.isNil
         /\ DOMAIN rs.store.data = {"existing"} \cup {WriterKey(t) : t \in Writers}
         /\ rs.store.data["existing"] = ExistingValue
         /\ \A t \in Writers : rs.store.data[WriterKey(t)] = WriterValue(t)
    /\ \A t \in Readers : Len(rs.th[t].got) >= 1 =>
         rs.th[t].got[1] = Got("existing", [value |-> ExistingValue, err |-> NoError])
    /\ \A t \in Writers : Len(rs.th[t].got) >= 1 =>
         rs.th[t].got[1] = Got(WriterKey(t), [value |-> WriterValue(t), err |-> NoError])

C23_Witness ==
  /\ rs.pc = "con"
  /\ AllThreadsDone
  /\ \A t \in Writers : Len(rs.th[t].got) = 1
  /\ \A t \in Readers : Len(rs.th[t].got) = 2 /\ rs.th[t].got[2].err.kind = "TASK_NOT_FOUND"
  /\ Cardinality(DOMAIN rs.store.data) = MaxWriters + 1

\* ============================================ properties: functions alone
\* the shapes a task function may have
AcceptedShape(fn) ==
  /\ fn.isFunc
  /\ Len(fn.ins) >= 1
  /\ fn.ins[1] \in ContextTypes
  /\ ~fn.variadic
  /\ \/ Len(fn.outs) = 1 /\ fn.outs[1] \in ErrorTypes
     \/ Len(fn.outs) = 2 /\ fn.outs[2] \in ErrorTypes

Range(q) == {q[i] : i \in 1..Len(q)}

\* the positions of the TASK_RESULT descriptors, and the j-th of them
ResultPositions(specs) == {i \in 1..Len(specs) : specs[i].Type = TaskResultInputSpec}
NthResultPosition(specs, j) ==
  CHOOSE i \in ResultPositions(specs) :
    Cardinality({x \in ResultPositions(specs) : x < i}) = j - 1

\* C29: GetDependencies returns a slice that is not nil and holds the
\* sources of the TASK_RESULT descriptors, in descriptor order, one element
\* per descriptor; the graph built from the registry lists nothing else, so
\* a RUNTIME descriptor adds no prerequisite, also when it names a task.
C29_Dependencies ==
  unit.pc = "deps" =>
    LET specs == unit.registry["a"].inputSpecs IN
    /\ ~unit.deps.isNil
    /\ Len(unit.deps.elems) = Cardinality(ResultPositions(specs))
    /\ \A j \in 1..Len(unit.deps.elems) :
         unit.deps.elems[j] = specs[NthResultPosition(specs, j)].Source
    /\ unit.graph["a"] = unit.deps.elems
    /\ \A i \in 1..Len(specs) :
         (specs[i].Type = RuntimeInputSpec /\ Use(specs[i].Source) \notin Range(specs)) =>
           specs[i].Source \notin Range(unit.graph["a"])

C29_Witness ==
  /\ unit.pc = "deps"
  /\ unit.registry["a"].inputSpecs = <<Use("b"), UseRun("a"), Use("b")>>
  /\ unit.deps = Slice(FALSE, <<"b", "b">>)
  /\ unit.graph["a"] = <<"b", "b">>

\* ====================================== properties: the order of the checks
\* a call that passes every check of the task factory, said without the
\* factory: an id that is not blank, a function of an accepted shape, and
\* one descriptor per parameter after the token
WellFormedCall(call) ==
  /\ call.id \notin WhitespaceIds
  /\ AcceptedShape(call.fn)
  /\ Len(call.inputs) = Len(call.fn.ins) - 1

ValidationKinds ==
  {"TASK_ID_EMPTY", "MUST_BE_FUNCTION", "MUST_HAVE_AT_LEAST_CONTEXT",
   "FIRST_PARAM_MUST_BE_CONTEXT", "MUST_RETURN_AT_LEAST_ERROR",
   "SINGLE_RETURN_MUST_BE_ERROR", "SECOND_RETURN_MUST_BE_ERROR",
   "TOO_MANY_RETURN_VALUES", "VARIADIC_NOT_SUPPORTED", "PARAM_COUNT_MISMATCH"}

\* C31: a Do call for an id that is registered records a validation error
\* kind when its task is not valid, and DUPLICATE_TASK when it is; no Do
\* call with a task that is not valid records DUPLICATE_TASK.
C31_ValidationBeforeDuplicate ==
  [][\A call \in DoCalls \cup GraphCalls :
       Do(call) =>
         /\ (call.id \in DOMAIN tasks /\ ~WellFormedCall(call)) =>
              error'.kind \in ValidationKinds
         /\ (call.id \in DOMAIN tasks /\ WellFormedCall(call)) =>
              error'.kind = "DUPLICATE_TASK"
         /\ (error' # error /\ error'.kind = "DUPLICATE_TASK") => WellFormedCall(call)]_vars

C31_Witness ==
  /\ DOMAIN tasks = {"a", "b", "c"}
  /\ error.kind = "PARAM_COUNT_MISMATCH"
  /\ ErrorNames(error, "b")

\* ============================================ properties: Run and the registry
\* C32: no step of Run changes the registry or the sticky error; the sticky
\* error, once set, is never cleared; a Run that starts with the sticky
\* error set returns the build error and no store, whatever was registered
\* since; a Run that starts without it goes on, also after an earlier Run.
C32_RunLeavesOrchestrator ==
  /\ [][(runVars' # runVars) => (tasks' = tasks /\ error' = error)]_vars
  /\ [][error # NoError => error' # NoError]_vars
  /\ [][\A runInputs \in KeepInputs, c \in BOOLEAN :
          RunCall(runInputs, c) =>
            IF error # NoError
              THEN /\ runPC' = "returned"
                   /\ runRet' = RunReturn(FALSE, Wrapf(error, <<"build error">>))
              ELSE runPC' = "getStages"]_vars

C32_Witness ==
  /\ error.kind = "DUPLICATE_TASK"
  /\ DOMAIN tasks = {"k", "b", "c"}
  /\ kept.held
  /\ ~kept.same
  /\ DOMAIN kept.data = {"k"}
  /\ runPC = "returned"
  /\ runRet = RunReturn(FALSE, Wrapf(error, <<"build error">>))

\* ============================================== properties: lock discipline
\* C33: the registry and the sticky error change only while a Do call holds
\* the write lock, and Run and its workers read them (the sticky-error check
\* of Run, the graph built by getStages, the lookup of executeTask) only
\* while no Do call holds the write lock.
C33_LockDiscipline ==
  /\ [][(tasks' # tasks \/ error' # error) => (mu.writer /\ mu.readers = 0)]_vars
  /\ [][(GetStages \/ \E id \in TaskIds : Lookup(id)) => ~mu.writer]_vars
  /\ [][(\E runInputs \in RunInputs, c \in BOOLEAN : RunCall(runInputs, c)) => ~mu.writer]_vars

\* ============================================ properties: error-only tasks
ErrorOnly(id) == id \in DOMAIN tasks /\ Len(tasks[id].fn.outs) = 1
Scheduled(id) == \E i \in 1..Len(stages) : id \in StageSet(i)

\* the tasks that name an error-only task as a TASK_RESULT source
FedByErrorOnly(id) ==
  /\ id \in DOMAIN tasks
  /\ \E s \in TaskResultSources(id) : ErrorOnly(s)

\* C34: a task whose callable returns only an error never has an entry in
\* the store, so Get on its id gives TASK_NOT_FOUND also after a successful
\* run; a task fed by it is started only when it is done, is never invoked,
\* ends with TASK_NOT_FOUND, and a Run that scheduled it returns no store.
C34_ErrorOnlyTasks ==
  /\ [](\A id \in TaskIds : ErrorOnly(id) =>
          /\ id \notin DOMAIN data
          /\ Get(data, id).err.kind = "TASK_NOT_FOUND")
  /\ [](\A id \in TaskIds : (FedByErrorOnly(id) /\ Started(id)) =>
          /\ \A s \in TaskResultSources(id) : ErrorOnly(s) => w[s].pc = "done"
          /\ w[id].pc \notin {"running", "done"}
          /\ w[id].pc \in {"erred", "failed"} =>
               /\ w[id].err.kind = "TASK_NOT_FOUND"
               /\ w[id].args = <<>>)
  /\ [](\A id \in TaskIds :
          (FedByErrorOnly(id) /\ Scheduled(id) /\ runPC = "returned") => ~runRet.hasResult)
  /\ [][\A id \in TaskIds :
          (ErrorOnly(id) /\ w[id].pc = "running" /\ w'[id].pc = "done") => data' = data]_vars

C34_Witness ==
  /\ runPC = "returned"
  /\ ~runRet.hasResult
  /\ Mentions(runRet.err, "TASK_NOT_FOUND")
  /\ DOMAIN tasks = {"a", "b", "d", "e"}
  /\ w["d"].pc = "done"
  /\ w["d"].err = NoError
  /\ w["e"].err.kind = "TASK_NOT_FOUND"
  /\ DOMAIN data = {"k", "a", "b"}

\* ================================================ properties: termination
\* how many errors of the task id the channel holds
SentBy(id) ==
  Cardinality({k \in 1..Len(errChan) :
                 errChan[k] = Wrapf(w[id].err, <<"task failed", id>>)})

\* C35: a Run in progress returns, given that its workers are scheduled and
\* the callables return; a worker that has an error to send finds room in
\* the channel, which never holds more errors than the level has tasks nor
\* two of one task; the channel is drained only when every worker of the
\* level has ended.
C35_RunTerminates ==
  /\ RunInProgress ~> (runPC = "returned")
  /\ [](runPC = "wait" =>
          /\ Len(errChan) <= Len(stages[stageIdx])
          /\ \A id \in StageSet(stageIdx) :
               /\ SentBy(id) <= 1
               /\ w[id].pc = "erred" => Len(errChan) < errChanCap(stages[stageIdx]))
  /\ [][Wait => \A id \in StageSet(stageIdx) : Terminated(id)]_vars

C35_Witness ==
  /\ runPC = "wait"
  /\ Len(stages[stageIdx]) = 2
  /\ Len(errChan) = 1
  /\ \E id \in StageSet(stageIdx) : w[id].pc = "erred"


\* ------------------------------------------------------ the resolver alone
\* what descriptor i of the task resolves to when nothing fails
ResolvedFor(task, i, store) ==
  IF task.inputSpecs[i].Field = <<>> THEN store[task.inputSpecs[i].Source]
  ELSE extractNestedField(store[task.inputSpecs[i].Source], task.inputSpecs[i].Field).value

\* descriptor i names a stored value of exactly the parameter's type
FitsAsStored(task, i, store) ==
  /\ task.inputSpecs[i].Source \in DOMAIN store
  /\ task.inputSpecs[i].Field = <<>>
  /\ store[task.inputSpecs[i].Source].type = task.fn.ins[i + 1]

\* C36: when resolveInputs succeeds its vector has one entry per parameter
\* of the callable, the token first and the value resolved for descriptor i
\* at position i+1; and values of exactly the parameters' types, nil
\* pointers included, are resolved without error and passed as they are.
C36_ArgumentVector ==
  unit.pc = "executed" =>
    LET task == unit.task
        store == unit.store
        r == unit.resolved
        specs == 1..Len(task.inputSpecs)
    IN /\ (r.err = NoError /\ ~r.panics) =>
            /\ Len(r.args) = Len(task.fn.ins)
            /\ r.args[1] = ValueOfContext
            /\ \A i \in specs : r.args[i + 1] = ResolvedFor(task, i, store)
       /\ (\A i \in specs : FitsAsStored(task, i, store)) =>
            /\ r.err = NoError /\ ~r.panics
            /\ \A i \in specs : r.args[i + 1] = store[task.inputSpecs[i].Source]

C36_Witness ==
  /\ unit.pc = "executed"
  /\ Len(unit.task.inputSpecs) = 2
  /\ unit.resolved.err = NoError
  /\ Len(unit.resolved.args) = 3
  /\ unit.resolved.args[2].at = <<"*", "Home">>
  /\ unit.resolved.args[2].type = "*Address" /\ IsNil(unit.resolved.args[2])
  /\ unit.resolved.args[3] = GoValue("run", "*string", {<<>>})

\* what stops the walk at the value c for the name seg, "" when nothing does
SegmentFailure(c, seg) ==
  IF c.type \in PointerTypes /\ <<>> \in c.nils THEN "nil pointer encountered"
  ELSE LET t == IF c.type \in PointerTypes THEN PointerElem(c.type) ELSE c.type IN
    IF t \notin StructTypes THEN "is not a struct"
    ELSE IF seg \notin DOMAIN StructFields(t) THEN "not found"
    ELSE IF ~StructFields(t)[seg].exported THEN "is not exported"
    ELSE ""

RECURSIVE Walked(_, _, _)
\* the value n names below v
Walked(v, segs, n) ==
  IF n = 0 THEN v
  ELSE LET c == Walked(v, segs, n - 1)
       IN FieldByName(IF c.type \in PointerTypes THEN Elem(c) ELSE c, segs[n])

RECURSIVE WalkOK(_, _, _)
\* nothing stops the walk at the first n names
WalkOK(v, segs, n) ==
  n = 0 \/ (WalkOK(v, segs, n - 1) /\ SegmentFailure(Walked(v, segs, n - 1), segs[n]) = "")

\* C37: the extractor fails at once on a nil start value; otherwise it
\* fails at the first name of the path where the current value is a nil
\* pointer, or is (after one dereference) no struct, or has no such field,
\* or has it unexported, in this precedence; with no such name it returns
\* the value of the last named field.  A failure of the extractor is
\* returned by executeTask, which does not invoke the callable.
C37_NestedFieldExtraction ==
  /\ unit.pc = "extracted" =>
       LET v == unit.value
           segs == Split(unit.path)
       IN /\ v.type = UntypedNil => unit.out.err = Err("value is nil")
          /\ (v.type \in PointerTypes /\ IsNil(v)) =>
               unit.out.err = FieldError("nil pointer encountered", segs[1])
          /\ (v.type = "**User" /\ ~IsNil(v)) =>
               unit.out.err = FieldError("is not a struct", segs[1])
          /\ v.type # UntypedNil =>
               /\ \A n \in 1..Len(segs) :
                    (WalkOK(v, segs, n - 1) /\ ~WalkOK(v, segs, n)) =>
                      unit.out.err =
                        FieldError(SegmentFailure(Walked(v, segs, n - 1), segs[n]), segs[n])
               /\ WalkOK(v, segs, Len(segs)) =>
                    /\ unit.out.err = NoError
                    /\ unit.out.value = Walked(v, segs, Len(segs))
                    /\ unit.out.value.at[Len(unit.out.value.at)] = segs[Len(segs)]
  /\ (/\ unit.pc = "executed"
      /\ "a" \in DOMAIN unit.store
      /\ unit.task.inputSpecs[1].Field # <<>>
      /\ extractNestedField(unit.store["a"], unit.task.inputSpecs[1].Field).err # NoError) =>
       /\ ~unit.invoked
       /\ unit.resolved.args = <<>>
       /\ unit.err =
            Wrapf(Wrapf(extractNestedField(unit.store["a"],
                                           unit.task.inputSpecs[1].Field).err,
                        <<"parameter", 2>>),
                  <<"input resolution failed">>)

C37_Witness ==
  /\ unit.pc = "extracted"
  /\ unit.value = GoValue("a", "*User", {<<"*", "Home">>})
  /\ unit.path = <<"Home", Dot, "City">>
  /\ unit.out.err = FieldError("nil pointer encountered", "City")

\* the kind of error that comes first for fn in the order: no function,
\* no parameter, variadic, first parameter, then the returns
FirstKind(fn) ==
  IF fn.isNil \/ ~fn.isFunc THEN "MUST_BE_FUNCTION"
  ELSE IF Len(fn.ins) = 0 THEN "MUST_HAVE_AT_LEAST_CONTEXT"
  ELSE IF fn.variadic THEN "VARIADIC_NOT_SUPPORTED"
  ELSE IF fn.ins[1] \notin ContextTypes THEN "FIRST_PARAM_MUST_BE_CONTEXT"
  ELSE IF Len(fn.outs) = 0 THEN "MUST_RETURN_AT_LEAST_ERROR"
  ELSE IF Len(fn.outs) > 2 THEN "TOO_MANY_RETURN_VALUES"
  ELSE IF Len(fn.outs) = 1 /\ fn.outs[1] \notin ErrorTypes THEN "SINGLE_RETURN_MUST_BE_ERROR"
  ELSE IF Len(fn.outs) = 2 /\ fn.outs[2] \notin ErrorTypes THEN "SECOND_RETURN_MUST_BE_ERROR"
  ELSE "nil"

\* C38: the analyzer reports the one kind that comes first in the order
\* MUST_BE_FUNCTION (a nil or non-function value), no parameter, variadic,
\* first parameter not a token, then the kinds of the returns.
C38_ErrorPrecedence ==
  unit.pc = "analyzed" =>
    /\ unit.info.err.kind = FirstKind(unit.fn)
    /\ unit.info.err.errs = <<>>

\* the same for every value but the nil values of a function type
C38_PrecedenceButNilFunc ==
  (unit.pc = "analyzed" /\ ~(unit.fn.isNil /\ unit.fn.isFunc)) =>
    /\ unit.info.err.kind = FirstKind(unit.fn)
    /\ unit.info.err.errs = <<>>

\* ------------------------------------------------------ the factory alone
\* C39: NewTask reports TASK_ID_EMPTY for an id that trims to nothing,
\* whatever the callable; else the error of the analyzer when there is one;
\* else PARAM_COUNT_MISMATCH exactly when the number of descriptors is not
\* the number of parameters less one; and no task with any error.
C39_FactoryOrder ==
  unit.pc = "made" =>
    LET info == analyzeFunctionSignature(unit.fn)
        err == unit.made.err
    IN /\ unit.id \in {"", " "} => err = ErrTaskIDCannotBeEmpty
       /\ (unit.id \notin {"", " "} /\ info.err # NoError) =>
            /\ err.kind = info.err.kind
            /\ err.ctx[1] = <<"invalid function for task", unit.id>>
       /\ (unit.id \notin {"", " "} /\ info.err = NoError) =>
            /\ err.kind \in {"nil", "PARAM_COUNT_MISMATCH"}
            /\ err.kind = "PARAM_COUNT_MISMATCH" <=> Len(unit.specs) # Len(unit.fn.ins) - 1
       /\ err # NoError => unit.made.task = NoTask
       /\ err = NoError =>
            /\ unit.made.task.fn = unit.fn
            /\ unit.made.task.inputSpecs = unit.specs

C39_Witness ==
  /\ unit.pc = "made"
  /\ unit.id = "a"
  /\ unit.fn = TakesInts(1)
  /\ Len(unit.specs) = 2
  /\ unit.made.err.kind = "PARAM_COUNT_MISMATCH"
  /\ unit.made.task = NoTask

\* ------------------------------------------------- ids with white space
\* C40: every key of the registry, and the id of the task it is bound to,
\* is a non-empty string without leading or trailing white space.
C40_TrimmedUniqueIds ==
  \A k \in DOMAIN tasks :
    /\ k # ""
    /\ k \notin {" a", "a ", " a ", " "}
    /\ tasks[k].id = k
====
